---- MODULE Spec2Model ----
(***************************************************************************)
(* Model of the in-memory write store of a shard (package memdb):          *)
(* memoryDatabase with its write/flush barrier (sync.WaitGroup), its       *)
(* read/write lock (sync.RWMutex), the decomposition of a MetricPoint into *)
(* field writes, the size accounting (atomic.Int32) and the read side      *)
(* Filter.                                                                 *)
(*                                                                         *)
(* The metric bucket store, the metric/series/field stores, the data point *)
(* buffer and the flusher are collaborators of memoryDatabase whose code   *)
(* is not in this tree; they are modelled by their interface: a bucket    *)
(* store is a map from metric ID to metric store, a series store a map    *)
(* from field ID to field store, a field store the list of its writes.    *)
(* What they return (sizes, errors) is chosen nondeterministically.        *)
(***************************************************************************)
EXTENDS Integers, Sequences, FiniteSets, TLC

\* ------------------------------------------------------------------ bounds
\* WriteWithoutLock calls of all writer goroutines together.
MaxPoints == 2

\* ------------------------------------------------------------- goroutines
Writers == {"w1", "w2"}
Readers == {"r1", "r2"}
NoOwner == "none"
\* The flush goroutine, as a possible owner of the lock.
Flusher == "flusher"

\* ------------------------------------------------------------------ values
Nil == "nil"
ErrAlloc == "errAllocPage"
ErrFlush == "errFlushMetric"
ErrCommit == "errCommit"
NoResult == "noResult"

\* int32 range of atomic.Int32
MaxInt32 == 2147483647
MinInt32 == -MaxInt32 - 1

\* MemoryDatabaseCfg given to NewMemoryDatabase
cfg == [FamilyTime |-> 1600000000, Name |-> "db"]

\* Size accounted for a new metric store; declared elsewhere in package memdb.
emptyMStoreSize == 64
\* What GetOrCreateTStore returns as size when it creates the series store.
emptyTStoreSize == 32
\* What InsertFStore returns as size.
insertFStoreSize == 16
\* Sizes fStore.Write may return: nothing grew, or the store grew. The large
\* one stands for the growth accounted over a long run of writes.
WriteSizes == {0, 1073741824}

\* --------------------------------------------------------- metric points
NoCompound == [present |-> FALSE]

Compound(min, max, sum, count, bounds, values) ==
    [present |-> TRUE, Min |-> min, Max |-> max, Sum |-> sum, Count |-> count,
     ExplicitBounds |-> bounds, Values |-> values]

MetricPoint(m, s, slot, fieldIDs, simple, compound) ==
    [MetricID |-> m, SeriesID |-> s, SlotIndex |-> slot, FieldIDs |-> fieldIDs,
     Proto |-> [SimpleFields |-> simple, CompoundField |-> compound]]

\* The points the writers choose from.
Points ==
    { MetricPoint(1, 7, 10, <<1>>, <<[Type |-> "DELTA_SUM", Value |-> 42]>>, NoCompound),
      MetricPoint(2, 8, 10, <<1, 2>>,
                  <<[Type |-> "UNSPECIFIED", Value |-> 5]>>,
                  Compound(0, 0, 20, 4, <<>>, <<>>)) }

\* Points with a compound field, each submitted alone to a new database:
\* all of min, max, sum, count and two buckets; a simple field of each kind
\* before a compound field without min; a compound field without min and max
\* after a gauge.
CompoundPoints ==
    { MetricPoint(1, 7, 10, <<1, 2, 3, 4, 5, 6>>, <<>>,
                  Compound(1, 9, 20, 4, <<10, 100>>, <<3, 1>>)),
      MetricPoint(1, 7, 11, <<1, 2, 3, 4, 5>>,
                  <<[Type |-> "DELTA_SUM", Value |-> 42],
                    [Type |-> "UNSPECIFIED", Value |-> 5]>>,
                  Compound(0, 8, 21, 6, <<10>>, <<2>>)),
      MetricPoint(2, 8, 12, <<1, 2, 3>>, <<[Type |-> "GAUGE", Value |-> 7]>>,
                  Compound(0, 0, 22, 5, <<>>, <<>>)) }

\* Points whose FieldIDs hold more entries than the call uses, each submitted
\* alone to a new database: simple fields of every type; a simple field of no
\* written type alone; compound fields with min, with max, with both not
\* positive, and with sum and count zero.
FieldPoints ==
    { MetricPoint(1, 7, 10, <<1, 2, 3, 4>>,
                  <<[Type |-> "DELTA_SUM", Value |-> 42],
                    [Type |-> "UNSPECIFIED", Value |-> 5],
                    [Type |-> "CUMULATIVE_SUM", Value |-> 3],
                    [Type |-> "GAUGE", Value |-> 7]>>, NoCompound),
      MetricPoint(1, 7, 11, <<1>>, <<[Type |-> "UNSPECIFIED", Value |-> 5]>>, NoCompound),
      MetricPoint(1, 7, 12, <<1, 2, 3, 4>>, <<>>, Compound(0, 9, 23, 7, <<>>, <<>>)),
      MetricPoint(2, 8, 13, <<1, 2, 3, 4, 5, 6>>, <<[Type |-> "GAUGE", Value |-> 7]>>,
                  Compound(4, 0, 0, 0, <<10>>, <<2>>)),
      MetricPoint(2, 8, 14, <<1, 2, 3, 4>>, <<>>, Compound(-1, 0, 25, 1, <<>>, <<>>)) }

\* The value of the local point of a writer that is not in WriteWithoutLock.
NoPoint == MetricPoint(0, 0, 0, <<>>, <<>>, NoCompound)

\* The value of the result of a Filter that has not returned.
NoFilterResult == [resultSet |-> {}, err |-> NoResult]

\* Metric IDs a Filter asks for; 3 is written by no point.
FilterMetricIDs == {1, 3}

\* -------------------------------------------------------------- int32
\* atomic.Int32.Add: two's complement addition of two int32 values.
Int32Add(a, b) ==
    IF b >= 0 /\ a > MaxInt32 - b
    THEN ((a - MaxInt32) - 1) + ((b - MaxInt32) - 1)
    ELSE IF b < 0 /\ a < MinInt32 - b
    THEN ((a + MaxInt32) + 1) + ((b + MaxInt32) + 1)
    ELSE a + b

\* ------------------------------------------- WriteWithoutLock's field writes
FieldWrite(fieldID, fieldType, value) ==
    [fieldID |-> fieldID, fieldType |-> fieldType, value |-> value]

\* point.FieldIDs[fieldIDIdx], fieldIDIdx counted from 0
FieldIDAt(point, fieldIDIdx) == point.FieldIDs[fieldIDIdx + 1]

\* The loop over SimpleFields where a field of no written type takes a field ID.
RECURSIVE SimpleFieldWritesOtherConsumes(_, _, _)
SimpleFieldWritesOtherConsumes(point, i, fieldIDIdx) ==
    IF i > Len(point.Proto.SimpleFields) THEN <<>>
    ELSE LET sf == point.Proto.SimpleFields[i] IN
         IF sf.Type \in {"DELTA_SUM", "CUMULATIVE_SUM"}
         THEN <<FieldWrite(FieldIDAt(point, fieldIDIdx), "SumField", sf.Value)>>
              \o SimpleFieldWritesOtherConsumes(point, i + 1, fieldIDIdx + 1)
         ELSE IF sf.Type = "GAUGE"
         THEN <<FieldWrite(FieldIDAt(point, fieldIDIdx), "GaugeField", sf.Value)>>
              \o SimpleFieldWritesOtherConsumes(point, i + 1, fieldIDIdx + 1)
         ELSE SimpleFieldWritesOtherConsumes(point, i + 1, fieldIDIdx + 1)

\* The loop over SimpleFields from index i on, with fieldIDIdx field writes done.
RECURSIVE SimpleFieldWrites(_, _, _)
SimpleFieldWrites(point, i, fieldIDIdx) ==
    IF i > Len(point.Proto.SimpleFields) THEN <<>>
    ELSE LET sf == point.Proto.SimpleFields[i] IN
         IF sf.Type \in {"DELTA_SUM", "CUMULATIVE_SUM"}
         THEN <<FieldWrite(FieldIDAt(point, fieldIDIdx), "SumField", sf.Value)>>
              \o SimpleFieldWrites(point, i + 1, fieldIDIdx + 1)
         ELSE IF sf.Type = "GAUGE"
         THEN <<FieldWrite(FieldIDAt(point, fieldIDIdx), "GaugeField", sf.Value)>>
              \o SimpleFieldWrites(point, i + 1, fieldIDIdx + 1)
         ELSE SimpleFieldWrites(point, i + 1, fieldIDIdx)

\* The bucket loop from index idx on.
RECURSIVE BucketWrites(_, _, _)
BucketWrites(point, idx, fieldIDIdx) ==
    IF idx > Len(point.Proto.CompoundField.ExplicitBounds) THEN <<>>
    ELSE <<FieldWrite(FieldIDAt(point, fieldIDIdx), "HistogramField",
                      point.Proto.CompoundField.Values[idx])>>
         \o BucketWrites(point, idx + 1, fieldIDIdx + 1)

\* A compound field written sum and count first, then min and max.
CompoundFieldWritesSumFirst(point, fieldIDIdx) ==
    LET c == point.Proto.CompoundField IN
    IF ~c.present THEN <<>>
    ELSE LET sumW == <<FieldWrite(FieldIDAt(point, fieldIDIdx), "SumField", c.Sum)>>
             countW == <<FieldWrite(FieldIDAt(point, fieldIDIdx + 1), "SumField", c.Count)>>
             i1 == fieldIDIdx + 2
             minW == IF c.Min > 0
                     THEN <<FieldWrite(FieldIDAt(point, i1), "MinField", c.Min)>>
                     ELSE <<>>
             i2 == i1 + Len(minW)
             maxW == IF c.Max > 0
                     THEN <<FieldWrite(FieldIDAt(point, i2), "MinField", c.Max)>>
                     ELSE <<>>
         IN sumW \o countW \o minW \o maxW \o BucketWrites(point, 1, i2 + Len(maxW))

\* A compound field whose skipped min and max each take a field ID.
CompoundFieldWritesSkipConsumes(point, fieldIDIdx) ==
    LET c == point.Proto.CompoundField IN
    IF ~c.present THEN <<>>
    ELSE LET minW == IF c.Min > 0
                     THEN <<FieldWrite(FieldIDAt(point, fieldIDIdx), "MinField", c.Min)>>
                     ELSE <<>>
             i1 == fieldIDIdx + 1
             maxW == IF c.Max > 0
                     THEN <<FieldWrite(FieldIDAt(point, i1), "MinField", c.Max)>>
                     ELSE <<>>
             i2 == i1 + 1
             sumW == <<FieldWrite(FieldIDAt(point, i2), "SumField", c.Sum)>>
             countW == <<FieldWrite(FieldIDAt(point, i2 + 1), "SumField", c.Count)>>
         IN minW \o maxW \o sumW \o countW \o BucketWrites(point, 1, i2 + 2)

\* The writes of the compound field, with fieldIDIdx field writes done before.
CompoundFieldWrites(point, fieldIDIdx) ==
    LET c == point.Proto.CompoundField IN
    IF ~c.present THEN <<>>
    ELSE LET minW == IF c.Min > 0
                     THEN <<FieldWrite(FieldIDAt(point, fieldIDIdx), "MinField", c.Min)>>
                     ELSE <<>>
             i1 == fieldIDIdx + Len(minW)
             \* histogram_max is written with field.MinField as its type
             maxW == IF c.Max > 0
                     THEN <<FieldWrite(FieldIDAt(point, i1), "MinField", c.Max)>>
                     ELSE <<>>
             i2 == i1 + Len(maxW)
             sumW == <<FieldWrite(FieldIDAt(point, i2), "SumField", c.Sum)>>
             countW == <<FieldWrite(FieldIDAt(point, i2 + 1), "SumField", c.Count)>>
         IN minW \o maxW \o sumW \o countW \o BucketWrites(point, 1, i2 + 2)

\* The writeLinField calls WriteWithoutLock makes for a point when none fails,
\* in order.
FieldWrites(point) ==
    LET simple == SimpleFieldWrites(point, 1, 0)
    IN simple \o CompoundFieldWrites(point, Len(simple))

\* ------------------------------------------------------------------ state
VARIABLES
    wr,                     \* writer goroutines: position and locals
    rd,                     \* query goroutines: position and locals
    writeCondition,         \* md.writeCondition: the WaitGroup's counter
    rwOwner,                \* md.rwMutex: who holds it exclusively
    rwReaders,              \* md.rwMutex: who holds it shared
    mStores,                \* md.mStores: metric IDs with a metric store
    tStores,                \* series stores: <<metric, series>>
    fStores,                \* field stores: <<metric, series, field>> -> writes received
    mFields,                \* mStore.AddField: <<metric, field, type>>
    mSlots,                 \* mStore.SetSlot: <<metric, slot>>
    allocSize,              \* md.allocSize
    allocatedPages,         \* md.metrics.allocatedPages
    allocatedPageFailures,  \* md.metrics.allocatedPageFailures
    fl,                     \* the flush goroutine: position, walk, result
    hist,                   \* history of calls, for stating properties
    pts                     \* the points the callers of Write/WriteWithoutLock submit

storeVars == <<mStores, tStores, fStores, mFields, mSlots>>
memdbVars == <<wr, rd, writeCondition, rwOwner, rwReaders, mStores, tStores, fStores,
               mFields, mSlots, allocSize, allocatedPages, allocatedPageFailures, fl, hist>>

VARIABLES
    enc,                    \* a tsdEncoder, and what its caller has appended
    blk,                    \* what its Bytes() returned
    pay,                    \* what its BytesWithoutTime() returned
    dec,                    \* a TSDDecoder
    drv                     \* the codec's caller: last call, its result, what it decoded

codecVars == <<enc, blk, pay, dec, drv>>

VARIABLES
    pool,                   \* a workerPool: its channels, flags and counters
    workers,                \* the workers created, in order: where w.process is
    dispatcher,             \* the goroutine of p.dispatch
    callers,                \* the goroutines that call Submit and SubmitAndWait
    stopper,                \* the goroutine that calls Stop
    ran                     \* what became of each task, and how often it was run

poolVars == <<pool, workers, dispatcher, callers, stopper, ran>>

VARIABLES
    csm,                    \* a clusterStateMachine: its fields, and what it called
    ctl,                    \* the cluster controllers newCluster returned, in order
    gor                     \* the goroutines around it: listener, closers, collector, reader

clusterVars == <<csm, ctl, gor>>

VARIABLES
    leaf                    \* a leafTaskProcessor, the request it is given and what it sent

VARIABLES
    rt                      \* a broker runtime: its state, its components, its callers

\* The state of the coordinator, query and application packages
appVars == <<clusterVars, leaf, rt>>

\* What no method of memoryDatabase writes: the inputs of its callers, the
\* state of package encoding, of package concurrent and of the packages above.
otherVars == <<pts, appVars, codecVars, poolVars>>

vars == <<memdbVars, otherVars>>

Triple(point, fieldID) == <<point.MetricID, point.SeriesID, fieldID>>

\* A function extended or overwritten at one argument.
Put(f, k, v) == [x \in DOMAIN f \cup {k} |-> IF x = k THEN v ELSE f[x]]

Entry(fieldType, slot, value) == [fieldType |-> fieldType, slot |-> slot, value |-> value]

WriterInit ==
    [pc |-> "idle", mode |-> "none", calls |-> 0, point |-> NoPoint,
     found |-> FALSE, todo |-> <<>>, done |-> <<>>, size |-> 0, written |-> FALSE,
     err |-> NoResult]

ReaderInit == [pc |-> "idle", metricID |-> 0, result |-> NoFilterResult]

FlushInit ==
    [pc |-> "idle", walkStart |-> {}, walked |-> <<>>, commits |-> 0,
     commitResult |-> NoResult, result |-> NoResult,
     pending |-> {}, atCall |-> {}, pendingWrites |-> {}]

HistInit ==
    [newMStore |-> [m \in {} |-> 0], allocPage |-> [t \in {} |-> 0],
     issued |-> [t \in {} |-> <<>>], writeIssued |-> {},
     calls |-> [t \in {} |-> <<>>],
     points |-> 0]

\* NewMemoryDatabase
NewMemoryDatabase ==
    /\ wr = [w \in Writers |-> WriterInit]
    /\ rd = [r \in Readers |-> ReaderInit]
    /\ writeCondition = 0
    /\ rwOwner = NoOwner
    /\ rwReaders = {}
    /\ mStores = {}
    /\ tStores = {}
    /\ fStores = [t \in {} |-> <<>>]
    /\ mFields = {}
    /\ mSlots = {}
    /\ allocSize = 0
    /\ allocatedPages = 0
    /\ allocatedPageFailures = 0
    /\ fl = FlushInit
    /\ hist = HistInit

\* What the field stores hold: <<triple, entry>> pairs.
Contents ==
    UNION {{<<t, fStores[t][i]>> : i \in 1..Len(fStores[t])} : t \in DOMAIN fStores}

\* md.mStores.Get(metricID): whether the bucket store has the metric
MStoresGet(metricID) == metricID \in mStores

\* md.mStores.Put(metricID, mStore): the bucket store afterwards
MStoresPut(metricID) == mStores \cup {metricID}

\* tStore.GetFStore(fieldID) on the series store of t: whether it has the field
TStoreGetFStore(t) == t \in DOMAIN fStores

\* The field stores after fStore.Write of e on the field store of t, which is
\* the one GetFStore found (ok) or a new one put by tStore.InsertFStore
FStoreWrite(t, e, ok) == Put(fStores, t, IF ok THEN Append(fStores[t], e) ELSE <<e>>)

\* Writers between AcquireWrite and CompleteWrite.
InFlight == {w \in Writers : wr[w].pc # "idle"}

\* ------------------------------------------------------- writer goroutines
\* AcquireWrite: md.writeCondition.Add(1)
AcquireWrite(w) ==
    /\ wr[w].pc = "idle"
    /\ writeCondition' = writeCondition + 1
    /\ wr' = [wr EXCEPT ![w].pc = "acquired"]
    /\ UNCHANGED <<otherVars, rd, rwOwner, rwReaders, mStores, tStores, fStores, mFields, mSlots,
                   allocSize, allocatedPages, allocatedPageFailures, fl, hist>>

\* Write with a Lock that does not wait for the holders of the read lock.
WriteIgnoresReaders(w) ==
    /\ wr[w].pc = "acquired"
    /\ hist.points < MaxPoints
    /\ rwOwner = NoOwner
    /\ rwOwner' = w
    /\ wr' = [wr EXCEPT ![w].pc = "locked", ![w].mode = "Write", ![w].calls = 0]
    /\ hist' = [hist EXCEPT !.points = @ + 1]
    /\ UNCHANGED <<otherVars, rd, writeCondition, rwReaders, mStores, tStores, fStores, mFields,
                   mSlots, allocSize, allocatedPages, allocatedPageFailures, fl>>

\* Write: md.rwMutex.Lock(), with Unlock deferred to its return. Write calls
\* WriteWithoutLock once, so the call is counted against MaxPoints here.
Write(w) ==
    /\ wr[w].pc = "acquired"
    /\ hist.points < MaxPoints
    /\ rwOwner = NoOwner
    /\ rwReaders = {}
    /\ rwOwner' = w
    /\ wr' = [wr EXCEPT ![w].pc = "locked", ![w].mode = "Write", ![w].calls = 0]
    /\ hist' = [hist EXCEPT !.points = @ + 1]
    /\ UNCHANGED <<otherVars, rd, writeCondition, rwReaders, mStores, tStores, fStores, mFields,
                   mSlots, allocSize, allocatedPages, allocatedPageFailures, fl>>

\* WithLock that does not take the lock before returning the release function.
WithLockNoWait(w) ==
    /\ wr[w].pc = "acquired"
    /\ rwOwner' = w
    /\ wr' = [wr EXCEPT ![w].pc = "locked", ![w].mode = "Batch", ![w].calls = 0]
    /\ UNCHANGED <<otherVars, rd, writeCondition, rwReaders, mStores, tStores, fStores, mFields,
                   mSlots, allocSize, allocatedPages, allocatedPageFailures, fl, hist>>

\* WithLock: md.rwMutex.Lock(), returning md.rwMutex.Unlock
WithLock(w) ==
    /\ wr[w].pc = "acquired"
    /\ rwOwner = NoOwner
    /\ rwReaders = {}
    /\ rwOwner' = w
    /\ wr' = [wr EXCEPT ![w].pc = "locked", ![w].mode = "Batch", ![w].calls = 0]
    /\ UNCHANGED <<otherVars, rd, writeCondition, rwReaders, mStores, tStores, fStores, mFields,
                   mSlots, allocSize, allocatedPages, allocatedPageFailures, fl, hist>>

\* WriteWithoutLock is called with a point (by Write, once, or by the holder of
\* WithLock's lock); getOrCreateMStore looks the metric up: md.mStores.Get
WriteWithoutLock(w) ==
    /\ wr[w].pc = "locked"
    /\ wr[w].mode = "Write" => wr[w].calls = 0
    /\ wr[w].mode = "Batch" => hist.points < MaxPoints
    /\ \E point \in pts :
         /\ wr' = [wr EXCEPT ![w].pc = "mstore", ![w].point = point,
                             ![w].found = MStoresGet(point.MetricID),
                             ![w].err = NoResult]
         /\ hist' = [hist EXCEPT !.writeIssued = @ \cup {point.MetricID},
                                 !.points = IF wr[w].mode = "Batch" THEN @ + 1 ELSE @]
    /\ UNCHANGED <<otherVars, rd, writeCondition, rwOwner, rwReaders, mStores, tStores, fStores,
                   mFields, mSlots, allocSize, allocatedPages, allocatedPageFailures, fl>>

\* getOrCreateMStore after the lookup: newMetricStore, allocSize.Add and Put
\* when the metric was not found; then GetOrCreateTStore and the locals size,
\* written and fieldIDIdx of WriteWithoutLock
getOrCreateMStore(w) ==
    /\ wr[w].pc = "mstore"
    /\ LET point == wr[w].point
           m == point.MetricID
           ts == <<m, point.SeriesID>>
       IN /\ mStores' = IF wr[w].found THEN mStores ELSE MStoresPut(m)
          /\ allocSize' = IF wr[w].found THEN allocSize
                          ELSE Int32Add(allocSize, emptyMStoreSize)
          /\ hist' = [hist EXCEPT
                        !.newMStore = IF wr[w].found THEN @
                                      ELSE Put(@, m, IF m \in DOMAIN @ THEN @[m] + 1 ELSE 1)]
          /\ tStores' = tStores \cup {ts}
          /\ wr' = [wr EXCEPT ![w].pc = "writing", ![w].todo = FieldWrites(point),
                              ![w].size = IF ts \in tStores THEN 0 ELSE emptyTStoreSize,
                              ![w].written = FALSE, ![w].found = FALSE]
    /\ UNCHANGED <<otherVars, rd, writeCondition, rwOwner, rwReaders, fStores, mFields, mSlots,
                   allocatedPages, allocatedPageFailures, fl>>

\* writeLinField is called for the next field write: tStore.GetFStore
GetFStore(w) ==
    /\ wr[w].pc = "writing"
    /\ wr[w].todo # <<>>
    /\ wr' = [wr EXCEPT ![w].pc = "field",
                        ![w].found =
                            TStoreGetFStore(Triple(wr[w].point, Head(wr[w].todo).fieldID))]
    /\ UNCHANGED <<otherVars, rd, writeCondition, rwOwner, rwReaders, mStores, tStores, fStores,
                   mFields, mSlots, allocSize, allocatedPages, allocatedPageFailures,
                   fl, hist>>

\* What writeLinField calls for a field store that GetFStore did not find,
\* before fStore.Write
NewFieldStoreCalls == <<"AllocPage", "InsertFStore", "AddField">>

\* writeLinField that registers the field at the metric store at every write.
writeLinFieldAddsFieldAlways(w) ==
    /\ wr[w].pc = "field"
    /\ LET point == wr[w].point
           fw == Head(wr[w].todo)
           t == Triple(point, fw.fieldID)
           e == Entry(fw.fieldType, point.SlotIndex, fw.value)
           ok == wr[w].found
           inserted == IF ok THEN 0 ELSE insertFStoreSize
       IN /\ fStores' = FStoreWrite(t, e, ok)
          /\ mFields' = IF FALSE THEN mFields
                        ELSE mFields \cup {<<point.MetricID, fw.fieldID, fw.fieldType>>}
          /\ allocatedPages' = IF ok THEN allocatedPages ELSE allocatedPages + 1
          /\ hist' = [hist EXCEPT
                        !.allocPage = IF ok THEN @
                                      ELSE Put(@, t, IF t \in DOMAIN @ THEN @[t] + 1 ELSE 1),
                        !.issued = Put(@, t, IF t \in DOMAIN @ THEN Append(@[t], e)
                                             ELSE <<e>>),
                        !.calls = Put(@, t, IF ok THEN @[t] \o <<"AddField", "Write">>
                                            ELSE NewFieldStoreCalls \o <<"Write">>)]
          /\ \E writtenSize \in WriteSizes :
               /\ wr[w].size + inserted <= MaxInt32 - writtenSize
               /\ wr' = [wr EXCEPT ![w].pc = "writing", ![w].todo = Tail(@),
                                   ![w].done = Append(@, fw),
                                   ![w].size = @ + inserted + writtenSize,
                                   ![w].written = TRUE, ![w].found = FALSE]
          /\ fl' = [fl EXCEPT
                      !.pendingWrites = IF w \in fl.pending THEN @ \cup {<<t, e>>} ELSE @]
    /\ UNCHANGED <<otherVars, rd, writeCondition, rwOwner, rwReaders, mStores, tStores, mSlots,
                   allocSize, allocatedPageFailures>>

\* writeLinField after the lookup, when it returns no error: for a field store
\* not found AllocPage, allocatedPages.Incr, newFieldStore, InsertFStore and
\* AddField; then fStore.Write; then afterWrite in WriteWithoutLock
writeLinField(w) ==
    /\ wr[w].pc = "field"
    /\ LET point == wr[w].point
           fw == Head(wr[w].todo)
           t == Triple(point, fw.fieldID)
           e == Entry(fw.fieldType, point.SlotIndex, fw.value)
           ok == wr[w].found
           inserted == IF ok THEN 0 ELSE insertFStoreSize
       IN /\ fStores' = FStoreWrite(t, e, ok)
          /\ mFields' = IF ok THEN mFields
                        ELSE mFields \cup {<<point.MetricID, fw.fieldID, fw.fieldType>>}
          /\ allocatedPages' = IF ok THEN allocatedPages ELSE allocatedPages + 1
          /\ hist' = [hist EXCEPT
                        !.allocPage = IF ok THEN @
                                      ELSE Put(@, t, IF t \in DOMAIN @ THEN @[t] + 1 ELSE 1),
                        !.issued = Put(@, t, IF t \in DOMAIN @ THEN Append(@[t], e)
                                             ELSE <<e>>),
                        !.calls = Put(@, t, IF ok THEN @[t] \o <<"Write">>
                                            ELSE NewFieldStoreCalls \o <<"Write">>)]
          /\ \E writtenSize \in WriteSizes :
               /\ wr[w].size + inserted <= MaxInt32 - writtenSize
               /\ wr' = [wr EXCEPT ![w].pc = "writing", ![w].todo = Tail(@),
                                   ![w].done = Append(@, fw),
                                   ![w].size = @ + inserted + writtenSize,
                                   ![w].written = TRUE, ![w].found = FALSE]
          /\ fl' = [fl EXCEPT
                      !.pendingWrites = IF w \in fl.pending THEN @ \cup {<<t, e>>} ELSE @]
    /\ UNCHANGED <<otherVars, rd, writeCondition, rwOwner, rwReaders, mStores, tStores, mSlots,
                   allocSize, allocatedPageFailures>>

\* A failed field write that is skipped: WriteWithoutLock goes on with the next.
writeLinFieldFailsSkipped(w) ==
    /\ wr[w].pc = "field"
    /\ ~wr[w].found
    /\ allocatedPageFailures' = allocatedPageFailures + 1
    /\ wr' = [wr EXCEPT ![w].pc = "writing", ![w].todo = Tail(@), ![w].found = FALSE]
    /\ UNCHANGED <<otherVars, rd, writeCondition, rwOwner, rwReaders, mStores, tStores, fStores,
                   mFields, mSlots, allocSize, allocatedPages, fl, hist>>

\* A failed AllocPage after which the field is added to the metric store all
\* the same.
writeLinFieldFailsAddsField(w) ==
    /\ wr[w].pc = "field"
    /\ ~wr[w].found
    /\ allocatedPageFailures' = allocatedPageFailures + 1
    /\ mFields' = mFields \cup {<<wr[w].point.MetricID, Head(wr[w].todo).fieldID,
                                  Head(wr[w].todo).fieldType>>}
    /\ wr' = [wr EXCEPT ![w].pc = "locked", ![w].calls = @ + 1, ![w].err = ErrAlloc,
                        ![w].todo = <<>>, ![w].done = <<>>, ![w].point = NoPoint,
                        ![w].size = 0, ![w].written = FALSE, ![w].found = FALSE]
    /\ UNCHANGED <<otherVars, rd, writeCondition, rwOwner, rwReaders, mStores, tStores, fStores,
                   mSlots, allocSize, allocatedPages, fl, hist>>

\* writeLinField after the lookup, when AllocPage returns an error:
\* allocatedPageFailures.Incr, and WriteWithoutLock returns the error
writeLinFieldFails(w) ==
    /\ wr[w].pc = "field"
    /\ ~wr[w].found
    /\ allocatedPageFailures' = allocatedPageFailures + 1
    /\ wr' = [wr EXCEPT ![w].pc = "locked", ![w].calls = @ + 1, ![w].err = ErrAlloc,
                        ![w].todo = <<>>, ![w].done = <<>>, ![w].point = NoPoint,
                        ![w].size = 0, ![w].written = FALSE, ![w].found = FALSE]
    /\ UNCHANGED <<otherVars, rd, writeCondition, rwOwner, rwReaders, mStores, tStores, fStores,
                   mFields, mSlots, allocSize, allocatedPages, fl, hist>>

\* WriteWithoutLock from its End label: SetSlot if written, allocSize.Add, return nil
WriteWithoutLockEnd(w) ==
    /\ wr[w].pc = "writing"
    /\ wr[w].todo = <<>>
    /\ mSlots' = IF wr[w].written
                 THEN mSlots \cup {<<wr[w].point.MetricID, wr[w].point.SlotIndex>>}
                 ELSE mSlots
    /\ allocSize' = Int32Add(allocSize, wr[w].size)
    /\ wr' = [wr EXCEPT ![w].pc = "locked", ![w].calls = @ + 1, ![w].err = Nil,
                        ![w].point = NoPoint, ![w].done = <<>>, ![w].size = 0,
                        ![w].written = FALSE]
    /\ UNCHANGED <<otherVars, rd, writeCondition, rwOwner, rwReaders, mStores, tStores, fStores,
                   mFields, allocatedPages, allocatedPageFailures, fl, hist>>

\* md.rwMutex.Unlock: Write's deferred Unlock when its WriteWithoutLock has
\* returned, or the release function WithLock returned
Unlock(w) ==
    /\ wr[w].pc = "locked"
    /\ wr[w].mode = "Write" => wr[w].calls = 1
    /\ rwOwner' = NoOwner
    /\ wr' = [wr EXCEPT ![w].pc = "unlocked", ![w].mode = "none", ![w].calls = 0,
                        ![w].err = NoResult]
    /\ UNCHANGED <<otherVars, rd, writeCondition, rwReaders, mStores, tStores, fStores, mFields,
                   mSlots, allocSize, allocatedPages, allocatedPageFailures, fl, hist>>

\* CompleteWrite whose Done releases the waiting flush whatever the counter.
CompleteWriteWakesFlush(w) ==
    /\ wr[w].pc = "unlocked"
    /\ writeCondition' = writeCondition - 1
    /\ wr' = [wr EXCEPT ![w].pc = "idle"]
    /\ fl' = [fl EXCEPT !.pc = IF @ = "waiting" THEN "ready" ELSE @,
                        !.pending = @ \ {w}]
    /\ UNCHANGED <<otherVars, rd, rwOwner, rwReaders, mStores, tStores, fStores, mFields, mSlots,
                   allocSize, allocatedPages, allocatedPageFailures, hist>>

\* CompleteWrite: md.writeCondition.Done(); the Done that brings the counter to
\* zero releases a FlushFamilyTo blocked in Wait
CompleteWrite(w) ==
    /\ wr[w].pc = "unlocked"
    /\ writeCondition' = writeCondition - 1
    /\ wr' = [wr EXCEPT ![w].pc = "idle"]
    /\ fl' = [fl EXCEPT
                !.pc = IF @ = "waiting" /\ writeCondition = 1 THEN "ready" ELSE @,
                !.pending = @ \ {w}]
    /\ UNCHANGED <<otherVars, rd, rwOwner, rwReaders, mStores, tStores, fStores, mFields, mSlots,
                   allocSize, allocatedPages, allocatedPageFailures, hist>>

\* --------------------------------------------------------- flush goroutine
\* FlushFamilyTo without md.writeCondition.Wait().
FlushFamilyToNoWait ==
    /\ fl.pc = "idle"
    /\ fl' = [fl EXCEPT !.pc = "ready", !.pending = InFlight, !.atCall = Contents]
    /\ UNCHANGED <<otherVars, wr, rd, writeCondition, rwOwner, rwReaders, mStores, tStores, fStores,
                   mFields, mSlots, allocSize, allocatedPages, allocatedPageFailures, hist>>

\* FlushFamilyTo is called (once: the database is flushed and then discarded):
\* md.writeCondition.Wait() returns at once when the counter is zero and
\* blocks otherwise
FlushFamilyTo ==
    /\ fl.pc = "idle"
    /\ fl' = [fl EXCEPT !.pc = IF writeCondition = 0 THEN "ready" ELSE "waiting",
                        !.pending = InFlight, !.atCall = Contents]
    /\ UNCHANGED <<otherVars, wr, rd, writeCondition, rwOwner, rwReaders, mStores, tStores, fStores,
                   mFields, mSlots, allocSize, allocatedPages, allocatedPageFailures, hist>>

\* A walk that takes md.rwMutex for its duration.
WalkEntryLocked ==
    /\ fl.pc = "ready"
    /\ rwOwner = NoOwner
    /\ rwReaders = {}
    /\ rwOwner' = Flusher
    /\ fl' = [fl EXCEPT !.pc = "walk", !.walkStart = mStores]
    /\ UNCHANGED <<otherVars, wr, rd, writeCondition, rwReaders, mStores, tStores, fStores,
                   mFields, mSlots, allocSize, allocatedPages, allocatedPageFailures, hist>>

\* Wait has returned: md.mStores.WalkEntry starts
WalkEntry ==
    /\ fl.pc = "ready"
    /\ fl' = [fl EXCEPT !.pc = "walk", !.walkStart = mStores]
    /\ UNCHANGED <<otherVars, wr, rd, writeCondition, rwOwner, rwReaders, mStores, tStores, fStores,
                   mFields, mSlots, allocSize, allocatedPages, allocatedPageFailures, hist>>

Visited == {fl.walked[i].key : i \in 1..Len(fl.walked)}

\* md.mStores.WalkEntry: the entries it can visit next, each entry once
WalkEntryNext == mStores \ Visited

\* md.mStores.WalkEntry has visited every entry it started with
WalkEntryEnded == fl.walkStart \subseteq Visited

\* A visitor that does not return the error of FlushMetricsDataTo.
FlushMetricsDataToErrorDropped ==
    /\ fl.pc = "walk"
    /\ \E key \in WalkEntryNext, err \in {Nil, ErrFlush} :
         fl' = [fl EXCEPT
                  !.walked = Append(@, [key |-> key, metricID |-> key, err |-> err])]
    /\ UNCHANGED <<otherVars, wr, rd, writeCondition, rwOwner, rwReaders, mStores, tStores, fStores,
                   mFields, mSlots, allocSize, allocatedPages, allocatedPageFailures, hist>>

\* The visitor FlushFamilyTo gives WalkEntry, on one entry:
\* value.FlushMetricsDataTo(flusher, flushContext{metricID: key}); on an error
\* the walk ends and FlushFamilyTo returns the error
FlushMetricsDataTo ==
    /\ fl.pc = "walk"
    /\ \E key \in WalkEntryNext, err \in {Nil, ErrFlush} :
         fl' = [fl EXCEPT
                  !.walked = Append(@, [key |-> key, metricID |-> key, err |-> err]),
                  !.pc = IF err # Nil THEN "returned" ELSE @,
                  !.result = IF err # Nil THEN err ELSE @,
                  !.atCall = IF err # Nil THEN {} ELSE @,
                  !.pendingWrites = IF err # Nil THEN {} ELSE @]
    /\ UNCHANGED <<otherVars, wr, rd, writeCondition, rwOwner, rwReaders, mStores, tStores, fStores,
                   mFields, mSlots, allocSize, allocatedPages, allocatedPageFailures, hist>>

\* Commit called although the walk has not visited every entry.
CommitBeforeWalkEnds ==
    /\ fl.pc = "walk"
    /\ \E res \in {Nil, ErrCommit} :
         fl' = [fl EXCEPT !.commits = @ + 1, !.commitResult = res, !.result = res,
                          !.pc = "returned", !.atCall = {}, !.pendingWrites = {}]
    /\ UNCHANGED <<otherVars, wr, rd, writeCondition, rwOwner, rwReaders, mStores, tStores, fStores,
                   mFields, mSlots, allocSize, allocatedPages, allocatedPageFailures, hist>>

\* WalkEntry returned nil: return flusher.Commit(). The walk has visited every
\* entry that was in the bucket store when it started; an entry put while it
\* ran may have been visited or not.
Commit ==
    /\ fl.pc = "walk"
    /\ WalkEntryEnded
    /\ \E res \in {Nil, ErrCommit} :
         fl' = [fl EXCEPT !.commits = @ + 1, !.commitResult = res, !.result = res,
                          !.pc = "returned", !.atCall = {}, !.pendingWrites = {}]
    /\ UNCHANGED <<otherVars, wr, rd, writeCondition, rwOwner, rwReaders, mStores, tStores, fStores,
                   mFields, mSlots, allocSize, allocatedPages, allocatedPageFailures, hist>>

\* --------------------------------------------------------- query goroutines
\* return nil, nil: no result set and no error
NilNil == [resultSet |-> {}, err |-> Nil]

\* The call mStore.Filter(familyTime, seriesIDs, fields) on the metric store of
\* metricID, which produces Filter's result
MStoreFilter(metricID, familyTime) ==
    [resultSet |-> {<<metricID, familyTime>>}, err |-> Nil]

\* Filter is called: md.rwMutex.RLock(), with RUnlock deferred to its return
RLock(r) ==
    /\ rd[r].pc = "idle"
    /\ rwOwner = NoOwner
    /\ rwReaders' = rwReaders \cup {r}
    /\ \E metricID \in FilterMetricIDs :
         rd' = [rd EXCEPT ![r].pc = "rlocked", ![r].metricID = metricID,
                          ![r].result = NoFilterResult]
    /\ UNCHANGED <<otherVars, wr, writeCondition, rwOwner, mStores, tStores, fStores, mFields,
                   mSlots, allocSize, allocatedPages, allocatedPageFailures, fl, hist>>

\* Filter that looks the metric up with getOrCreateMStore instead of Get.
FilterCreatesMStore(r) ==
    /\ rd[r].pc = "rlocked"
    /\ rd' = [rd EXCEPT ![r].pc = "idle",
                        ![r].result = MStoreFilter(rd[r].metricID, cfg.FamilyTime)]
    /\ rwReaders' = rwReaders \ {r}
    /\ mStores' = mStores \cup {rd[r].metricID}
    /\ allocSize' = IF rd[r].metricID \in mStores THEN allocSize
                    ELSE Int32Add(allocSize, emptyMStoreSize)
    /\ UNCHANGED <<otherVars, wr, writeCondition, rwOwner, tStores, fStores, mFields,
                   mSlots, allocatedPages, allocatedPageFailures, fl, hist>>

\* Filter from md.mStores.Get to its return, the deferred RUnlock included
Filter(r) ==
    /\ rd[r].pc = "rlocked"
    /\ rd' = [rd EXCEPT ![r].pc = "idle",
                        ![r].result = IF rd[r].metricID \in mStores
                                      THEN MStoreFilter(rd[r].metricID, cfg.FamilyTime)
                                      ELSE NilNil]
    /\ rwReaders' = rwReaders \ {r}
    /\ UNCHANGED <<otherVars, wr, writeCondition, rwOwner, mStores, tStores, fStores, mFields,
                   mSlots, allocSize, allocatedPages, allocatedPageFailures, fl, hist>>

\* ===================================================== package concurrent
\* The goroutine pool: NewPool starts the dispatcher; callers Submit and
\* SubmitAndWait tasks from goroutines of their own; one goroutine calls Stop.
\* An unbuffered channel is a rendezvous: a send on w.tasks or w.stopCh and the
\* receive in the select of w.process are one step.

\* ------------------------------------------------------------------ bounds
\* Submit and SubmitAndWait calls made on a pool, by all callers together.
MaxSubmits == 2
\* Workers the dispatcher kills after an idle timeout.
MaxIdleKills == 1

\* ------------------------------------------------------------------ values
readyWorkerQueueSize == 32
tasksCapacity == 8
\* The goroutines that call Submit and SubmitAndWait
Callers == {"c1", "c2"}
\* maxWorkers as given to NewPool
MaxWorkersGiven == {0, 2}
\* No task: the Task of a nil func, and of a goroutine that holds none
NoTask == <<"none", 0>>
\* No worker
NoWorker == 0

\* Incr and Decr of a gauge or counter of package linmetric: one atomic step
\* that adds or takes one; Get reads the value
Incr(n) == n + 1

Decr(n) == n - 1
\* The tasks callers submit: the n-th call of caller c submits <<c, n>>
Tasks == {<<c, n>> : c \in Callers, n \in 1..MaxSubmits}
\* What became of a task: the call it was submitted with, whether the pool
\* was stopped then, whether the call has returned, and how often it was run
NotSubmitted == [call |-> "none", stopped |-> FALSE, returned |-> FALSE, runs |-> 0]

\* NewPool(name, maxWorkers, idleTimeout, scope); the dispatcher is started
NewPool(maxWorkers) ==
    /\ pool = [maxWorkers |-> IF maxWorkers < 1 THEN 1 ELSE maxWorkers,
               tasks |-> <<>>, readyWorkers |-> <<>>,
               stopped |-> FALSE, cancelled |-> FALSE,
               workersAlive |-> 0, workersCreated |-> 0, workersKilled |-> 0,
               tasksConsumed |-> 0]
    /\ workers = <<>>
    /\ dispatcher = [pc |-> "select", task |-> NoTask, kills |-> 0]
    /\ callers = [c \in Callers |->
                    [pc |-> "idle", call |-> "none", task |-> NoTask, calls |-> 0,
                     stoppedAtCall |-> FALSE, worker |-> NoWorker]]
    /\ stopper = [pc |-> "idle", submitted |-> {}, queued |-> {}, held |-> {},
                  running |-> {}, second |-> "idle"]
    /\ ran = [t \in Tasks |-> NotSubmitted]

\* A pool nobody uses
PoolIdle ==
    /\ pool = [maxWorkers |-> 1, tasks |-> <<>>, readyWorkers |-> <<>>,
               stopped |-> FALSE, cancelled |-> FALSE,
               workersAlive |-> 0, workersCreated |-> 0, workersKilled |-> 0,
               tasksConsumed |-> 0]
    /\ workers = <<>>
    /\ dispatcher = [pc |-> "none", task |-> NoTask, kills |-> 0]
    /\ callers = [c \in Callers |->
                    [pc |-> "none", call |-> "none", task |-> NoTask, calls |-> 0,
                     stoppedAtCall |-> FALSE, worker |-> NoWorker]]
    /\ stopper = [pc |-> "none", submitted |-> {}, queued |-> {}, held |-> {},
                  running |-> {}, second |-> "none"]
    /\ ran = [t \in Tasks |-> NotSubmitted]

\* ======================================================== package storage
\* The storage cluster state machine of the coordinator: it listens to the
\* storage cluster configs (OnCreate, OnDelete), keeps one cluster controller
\* per cluster name, collects their stats on a timer and is closed by Close.
\* Cluster, discovery.Discovery, state.RepositoryFactory and ClusterFactory are
\* collaborators whose code is not in this tree; they are modelled by their
\* interface, and what they return is chosen nondeterministically.
\* c.mutex is not a variable: every section of code that holds it is one
\* step, so that no step is taken inside another's critical section.

\* ------------------------------------------------------------------ bounds
\* OnCreate and OnDelete events the discovery delivers
MaxEvents == 2
\* Times c.timer fires
MaxTicks == 1

\* ------------------------------------------------------------------ values
\* Names of storage clusters, in the order a range over c.clusters visits them
ClusterNameSeq == <<"n1", "n2">>

ClusterNames == {ClusterNameSeq[i] : i \in DOMAIN ClusterNameSeq}
\* No cluster controller: the nil Cluster
NoCluster == 0
\* The goroutines that call Close
Closers == {"k1", "k2"}
\* The resource of a create event: bytes that are no JSON, or the JSON of a
\* config.StorageCluster with its Name, which may be empty
Resources ==
    {[json |-> FALSE, Name |-> ""]} \cup {[json |-> TRUE, Name |-> n] : n \in ClusterNames \cup {""}}
\* The key of a delete event: a directory and the name of the cluster
Keys == {<<"/storage/config/", n>> : n \in ClusterNames}
\* What c.clusterFactory.newCluster returns: a cluster, an error and no
\* cluster, or an error and the cluster it had begun to build
NewClusterResults == {"cluster", "errNil", "errCluster"}

\* encoding.JSONUnmarshal(resource, &cfg)
JSONUnmarshal(resource) ==
    IF resource.json THEN [err |-> FALSE, Name |-> resource.Name] ELSE [err |-> TRUE, Name |-> ""]

\* filepath.Split(key)
Split(key) == [dir |-> key[1], file |-> key[2]]

\* A cluster controller newCluster returned: whether it was stored in
\* c.clusters, how often Close was called on it, and how often CollectStat
\* was called on it after Close of the state machine had returned
Controller(name, stored, closes) ==
    [name |-> name, stored |-> stored, closes |-> closes, late |-> 0]

NoGet == [call |-> "none", name |-> "", cluster |-> NoCluster, all |-> {}, closed |-> FALSE]

\* NewClusterStateMachine has returned the state machine: the discovery
\* watches, the timer is set, collectStat is started, running is true
NewClusterStateMachine ==
    /\ csm = [running |-> TRUE, clusters |-> [n \in ClusterNames |-> NoCluster],
              discovery |-> "watching", timerSet |-> TRUE, timerC |-> 0, cancelled |-> FALSE,
              repos |-> 0, cleaned |-> 0, closeCalls |-> <<>>]
    /\ ctl = <<>>
    /\ gor = [listener |-> [pc |-> "idle", events |-> 0, name |-> ""],
              closers |-> [k \in Closers |-> [pc |-> "idle", swapped |-> FALSE]],
              collector |-> [pc |-> "select", ticks |-> 0],
              got |-> NoGet]

\* A state machine nobody has created
ClusterIdle ==
    /\ csm = [running |-> FALSE, clusters |-> [n \in ClusterNames |-> NoCluster],
              discovery |-> "none", timerSet |-> FALSE, timerC |-> 0, cancelled |-> FALSE,
              repos |-> 0, cleaned |-> 0, closeCalls |-> <<>>]
    /\ ctl = <<>>
    /\ gor = [listener |-> [pc |-> "none", events |-> 0, name |-> ""],
              closers |-> [k \in Closers |-> [pc |-> "none", swapped |-> FALSE]],
              collector |-> [pc |-> "none", ticks |-> 0],
              got |-> NoGet]

\* =================================================== package storagequery
\* The task processor of a leaf (storage) node: Process gets a TaskRequest
\* from the request stream, runs it and answers errors on that stream; the
\* result of a metadata request goes to the stream of the leaf's parent.
\* models.PhysicalPlan, tsdb.Engine, rpc.TaskServerFactory, the stmt parsers
\* and the storage executors are collaborators whose code is not in this
\* tree; they are modelled by their interface, and what they return is part
\* of the input.

\* ------------------------------------------------------------------ values
\* (&currentNode).Indicator()
CurrentNodeID == "1.1.1.1:9000"

OtherNodeID == "1.1.1.2:9000"
\* The databases of p.engine
Databases == {"db"}
\* The nodes a leaf may name as its parent
Parents == {"root1", "root2"}

NoError == [is |-> "", detail |-> ""]
\* An error of package query or constants, and fmt.Errorf("%w: %s", err, detail)
Err(name) == [is |-> name, detail |-> ""]

Errorf(err, detail) == [is |-> err.is, detail |-> detail]
\* err.Error(): the text of the error it wraps comes first
ErrorText(err) == err.is
\* errors.Is(err, target)
ErrorsIs(err, target) == err.is = target.is

Leaf(indicator, parent) == [Indicator |-> indicator, Parent |-> parent]

NoLeaf == Leaf("", "")
\* physicalPlan.Leafs of the plans a request may carry
LeafLists ==
    {<<>>,
     <<Leaf(OtherNodeID, "root1")>>,
     <<Leaf(OtherNodeID, "root1"), Leaf(CurrentNodeID, "root1")>>,
     <<Leaf(CurrentNodeID, "root2"), Leaf(CurrentNodeID, "root1")>>}
\* req.PhysicalPlan: bytes that are no JSON, or the JSON of a plan
PhysicalPlans ==
    {[json |-> FALSE, Database |-> "", Leafs |-> <<>>]}
    \cup {[json |-> TRUE, Database |-> d, Leafs |-> l] : d \in {"db", "nodb"}, l \in LeafLists}

RequestTypes == {"Data", "Metadata", "Unknown"}
\* What exec.Execute() of a metadata query returns: values, or no values
\* and an error, which may be or wrap constants.ErrNotFound
ExecuteResults ==
    {[values |-> <<"host">>, err |-> NoError],
     [values |-> <<>>, err |-> Err("ErrNotFound")],
     [values |-> <<>>, err |-> Errorf(Err("ErrNotFound"), "tag key")],
     [values |-> <<>>, err |-> Err("ErrExecute")]}

TaskRequests ==
    [PhysicalPlan : PhysicalPlans, ParentTaskID : {"task-1", "task-2"},
     RequestType : RequestTypes, Payload : {"json", "bad"}]
\* What the collaborators answer while a request is processed: the streams
\* the task server factory has, the result of the metadata executor, and
\* whether a Send on the parent stream fails
Answers ==
    [streams : {{}, {"root1"}, Parents}, execute : ExecuteResults, sendErr : BOOLEAN]

TaskResponse(taskID, completed, errMsg, payload) ==
    [TaskID |-> taskID, Type |-> "Leaf", Completed |-> completed, ErrMsg |-> errMsg,
     Payload |-> payload]

NoCounts == [omitted |-> 0, metric |-> 0, meta |-> 0]

\* What process leaves behind: its error, what it sent to the parent stream
\* and what it counted
Processed(err, sent, counts) == [err |-> err, parentSent |-> sent, counts |-> counts]

\* A leaf task processor nobody has given a request
LeafIdle ==
    leaf = [pc |-> "none", req |-> <<>>, answers |-> <<>>, err |-> NoError, sent |-> <<>>,
            parentSent |-> <<>>, counts |-> NoCounts]

\* ========================================================= package broker
\* The broker runtime: Run starts the components of a broker one after the
\* other, Stop shuts down those Run has set, State returns r.state. The
\* service is run and stopped by one goroutine, Stop is not called while
\* Run is running; State is called from any goroutine. The components
\* (state repo, state machines, master, registry, servers, pusher) are
\* collaborators whose code is not in this tree: a component is nil, set
\* (created, not started), started or stopped, and whether it starts or
\* fails is chosen nondeterministically.

\* ------------------------------------------------------------------ values
\* server.State
ServerStates == {"New", "Running", "Failed", "Terminated"}
\* The fields of runtime that Stop looks at, in the order it does
StopOrder ==
    <<"pusher", "httpServer", "registry", "master", "stateMachines", "repo", "grpcServer">>

Components == {StopOrder[i] : i \in DOMAIN StopOrder}

\* NewBrokerRuntime(version, config): state New, no component set
NewBrokerRuntime(pc) ==
    rt = [state |-> "New", pc |-> pc, stop |-> "idle", hostName |-> "",
          component |-> [c \in Components |-> "nil"],
          result |-> "none", stopped |-> <<>>, logged |-> {}, cancelled |-> FALSE,
          seen |-> "none"]

\* A runtime nobody runs
RuntimeIdle == NewBrokerRuntime("none")

AppIdle == ClusterIdle /\ LeafIdle /\ RuntimeIdle

\* ========================================================= package encoding
\* The TSD codec: tsdEncoder and TSDDecoder. The bit writer and reader, the
\* XOR value coder and the stream writer are collaborators whose code is not
\* in this tree; they are modelled at the level of bits: a bit writer appends
\* bits and pads the last byte with zeros when flushed, a bit reader reads
\* them back most significant bit first, and the XOR coder writes the first
\* value verbatim and every later one as the XOR against the previous,
\* without its leading and trailing zeros.

\* ------------------------------------------------------------------ bounds
\* AppendTime and AppendValue calls made on an encoder.
MaxAppends == 4
\* Calls made on a decoder after it was given data.
MaxDecodes == 7
\* Calls made on an encoder by a caller who only uses the encoder.
MaxEncodes == 5
\* Bits of a value (uint64 in the code).
ValueWidth == 3

\* ------------------------------------------------------------------ values
Bit == {0, 1}
\* Start times given to NewTSDEncoder.
StartTimes == {0, 10, 65535}
\* Values given to AppendValue.
Values == {5, 6}
\* An error of the bit writer.
ErrWrite == "errWrite"
\* TSDDecoder resets with bad data
ErrBadData == "errBadData"
\* An error of the bit reader: no bit left.
ErrEOF == "errEOF"
\* The value of a slot for which AppendValue was not called.
NoValue == -1

\* uint16 arithmetic
Uint16(n) == ((n % 65536) + 65536) % 65536

\* A []byte: nil, or the bytes.
NilBytes == [isNil |-> TRUE, bytes |-> <<>>]
ByteSlice(bs) == [isNil |-> FALSE, bytes |-> bs]

\* n as w bits, most significant first
RECURSIVE ToBits(_, _)
ToBits(n, w) == IF w = 0 THEN <<>> ELSE ToBits(n \div 2, w - 1) \o <<n % 2>>

RECURSIVE FromBits(_)
FromBits(bits) ==
    IF bits = <<>> THEN 0
    ELSE 2 * FromBits(SubSeq(bits, 1, Len(bits) - 1)) + bits[Len(bits)]

\* writer.PutUInt16(n): little-endian
PutUInt16(n) == <<n % 256, n \div 256>>

\* binary.LittleEndian.Uint16(data[i:i+2]), i counted from 0
LittleEndianUint16(data, i) == data[i + 1] + 256 * data[i + 2]

\* The bytes of a flushed bit writer: eight bits a byte, the last one padded
\* with zeros.
RECURSIVE FlushedBytes(_)
FlushedBytes(bits) ==
    IF bits = <<>> THEN <<>>
    ELSE IF Len(bits) < 8 THEN FlushedBytes(bits \o <<0>>)
    ELSE <<FromBits(SubSeq(bits, 1, 8))>> \o FlushedBytes(SubSeq(bits, 9, Len(bits)))

\* The bit of data at bit position pos, counted from 0
BitAt(data, pos) == (data[(pos \div 8) + 1] \div (2 ^ (7 - (pos % 8)))) % 2

\* ------------------------------------------------------------- XOR coder
\* Bits that hold a count of leading zeros or a length of up to 4.
CountBits == 2

XorBits(a, b) == [i \in 1..Len(a) |-> (a[i] + b[i]) % 2]

RECURSIVE LeadingZeros(_)
LeadingZeros(bits) ==
    IF bits = <<>> \/ bits[1] = 1 THEN 0 ELSE 1 + LeadingZeros(Tail(bits))

RECURSIVE TrailingZeros(_)
TrailingZeros(bits) ==
    IF bits = <<>> \/ bits[Len(bits)] = 1 THEN 0
    ELSE 1 + TrailingZeros(SubSeq(bits, 1, Len(bits) - 1))

\* XOREncoder.Write(value): the bits it writes, given whether it is the first
\* value and the previous one
XOREncoderWrite(first, prev, value) ==
    IF first THEN ToBits(value, ValueWidth)
    ELSE LET x == XorBits(ToBits(value, ValueWidth), ToBits(prev, ValueWidth))
             lead == LeadingZeros(x)
             len == ValueWidth - lead - TrailingZeros(x)
         IN IF lead = ValueWidth THEN <<0>>
            ELSE <<1>> \o ToBits(lead, CountBits) \o ToBits(len - 1, CountBits)
                 \o SubSeq(x, lead + 1, lead + len)

\* The bits of data from bit position pos on, n of them
ReadBits(data, pos, n) == [i \in 1..n |-> BitAt(data, pos + i - 1)]

\* XORDecoder.Next() and Value(): whether a value could be read at bit
\* position pos, the value, and the position after it
XORDecoderNext(data, pos, first, prev) ==
    LET avail == 8 * Len(data) - pos
        none == [ok |-> FALSE, value |-> 0, pos |-> 8 * Len(data)]
    IN IF first
       THEN IF avail < ValueWidth THEN none
            ELSE [ok |-> TRUE, value |-> FromBits(ReadBits(data, pos, ValueWidth)),
                  pos |-> pos + ValueWidth]
       ELSE IF avail < 1 THEN none
       ELSE IF BitAt(data, pos) = 0 THEN [ok |-> TRUE, value |-> prev, pos |-> pos + 1]
       ELSE IF avail < 1 + 2 * CountBits THEN none
       ELSE LET lead == FromBits(ReadBits(data, pos + 1, CountBits))
                len == FromBits(ReadBits(data, pos + 1 + CountBits, CountBits)) + 1
                at == pos + 1 + 2 * CountBits
            IN IF avail < 1 + 2 * CountBits + len \/ lead + len > ValueWidth THEN none
               ELSE LET x == [i \in 1..ValueWidth |->
                                IF i > lead /\ i <= lead + len
                                THEN BitAt(data, at + i - lead - 1) ELSE 0]
                    IN [ok |-> TRUE,
                        value |-> FromBits(XorBits(x, ToBits(prev, ValueWidth))),
                        pos |-> at + len]

\* ---------------------------------------------------------------- encoder
\* NewTSDEncoder(startTime); fed and proto record what the caller has done:
\* the slots it appended with their values, and whether it has called
\* AppendValue exactly once after every AppendTime(1) and never otherwise
\* ("ok"; "value" while that AppendValue is due; "broken" if it has not).
NewTSDEncoder(startTime) ==
    [startTime |-> startTime, bits |-> <<>>, count |-> 0, err |-> Nil,
     first |-> TRUE, prev |-> 0, fed |-> <<>>, values |-> 0, proto |-> "ok",
     resets |-> 0]

\* What Bytes() has returned; called is FALSE before the call.
NoBytes == [called |-> FALSE, data |-> NilBytes, err |-> Nil, flushed |-> Nil]

\* e.AppendTime(slot), the bit writer returning err from WriteBit
AppendTimeUnlatched(e, slot, err) ==
    [e EXCEPT
       !.bits = IF err # Nil THEN @ ELSE Append(@, slot),
       !.count = Uint16(@ + 1),
       !.err = err,
       !.fed = Append(@, [present |-> slot, value |-> NoValue]),
       !.proto = IF e.proto # "ok" THEN "broken"
                 ELSE IF slot = 1 THEN "value" ELSE "ok"]
AppendTime(e, slot, err) ==
    [e EXCEPT
       !.bits = IF e.err # Nil \/ err # Nil THEN @ ELSE Append(@, slot),
       !.count = IF e.err # Nil THEN @ ELSE Uint16(@ + 1),
       !.err = IF e.err # Nil THEN @ ELSE err,
       !.fed = Append(@, [present |-> slot, value |-> NoValue]),
       !.proto = IF e.proto # "ok" THEN "broken"
                 ELSE IF slot = 1 THEN "value" ELSE "ok"]

\* e.AppendValue(value), the XOR encoder returning err from Write
AppendValue(e, value, err) ==
    LET written == e.err = Nil /\ err = Nil IN
    [e EXCEPT
       !.bits = IF written THEN @ \o XOREncoderWrite(e.first, e.prev, value) ELSE @,
       !.first = IF written THEN FALSE ELSE @,
       !.prev = IF written THEN value ELSE @,
       !.err = IF e.err # Nil THEN @ ELSE err,
       !.values = @ + 1,
       !.fed = IF e.proto = "value" THEN [@ EXCEPT ![Len(@)].value = value] ELSE @,
       !.proto = IF e.proto = "value" THEN "ok" ELSE "broken"]

\* The block Bytes() builds: start and end time, then the flushed bits.
Block(e) ==
    PutUInt16(e.startTime) \o PutUInt16(Uint16(e.startTime + e.count - 1))
    \o FlushedBytes(e.bits)

\* e.Bytes(), flushFunc returning err; flushed is what flushFunc returned,
\* Nil if it was not called
BytesOfHeaderAlways(e, err) ==
    IF e.err # Nil
    THEN [called |-> TRUE, data |-> NilBytes, err |-> e.err, flushed |-> Nil]
    ELSE IF err # Nil
    THEN [called |-> TRUE, data |-> NilBytes, err |-> err, flushed |-> err]
    ELSE [called |-> TRUE, data |-> ByteSlice(Block(e)), err |-> Nil, flushed |-> Nil]
Bytes(e, err) ==
    IF e.err # Nil
    THEN [called |-> TRUE, data |-> NilBytes, err |-> e.err, flushed |-> Nil]
    ELSE IF err # Nil
    THEN [called |-> TRUE, data |-> NilBytes, err |-> err, flushed |-> err]
    ELSE IF e.count = 0
    THEN [called |-> TRUE, data |-> NilBytes, err |-> Nil, flushed |-> Nil]
    ELSE [called |-> TRUE, data |-> ByteSlice(Block(e)), err |-> Nil, flushed |-> Nil]

\* e.BytesWithoutTime(), flushFunc returning err
BytesWithoutTime(e, err) ==
    IF e.err # Nil
    THEN [called |-> TRUE, data |-> NilBytes, err |-> e.err, flushed |-> Nil]
    ELSE IF err # Nil
    THEN [called |-> TRUE, data |-> NilBytes, err |-> err, flushed |-> err]
    ELSE [called |-> TRUE,
          data |-> IF e.bits = <<>> /\ e.resets = 0 THEN NilBytes
                   ELSE ByteSlice(FlushedBytes(e.bits)),
          err |-> Nil, flushed |-> Nil]

\* The encoder after Bytes() or BytesWithoutTime(), flushFunc returning err:
\* a flush pads the bits written so far to whole bytes.
RECURSIVE Padded(_)
Padded(bits) == IF Len(bits) % 8 = 0 THEN bits ELSE Padded(bits \o <<0>>)
Flushed(e, err) ==
    IF e.err = Nil /\ err = Nil THEN [e EXCEPT !.bits = Padded(@)] ELSE e

\* e.Reset(): the bit buffer, the bit writer and the XOR encoder are reset;
\* fed, values and proto record what the caller does from here on, and resets
\* counts the calls.
tsdEncoderReset(e) ==
    [e EXCEPT !.bits = <<>>, !.first = TRUE, !.prev = 0,
              !.fed = <<>>, !.values = 0, !.proto = "ok", !.resets = @ + 1]

\* The caller of the codec made a call on the encoder; one who only uses the
\* encoder counts its calls.
EncCalled(name) ==
    IF drv.mode = "encoder" THEN [drv EXCEPT !.calls = @ + 1, !.last = name] ELSE drv

\* The caller may make a call on the encoder: one who only uses the encoder
\* as long as it has calls left, the others until they have taken the block.
MayAppend ==
    \/ drv.mode = "encoder" /\ drv.calls < MaxEncodes
    \/ /\ drv.mode # "encoder"
       /\ ~blk.called
       /\ Len(enc.fed) + enc.values < MaxAppends

\* A caller of the encoder appends a slot, ...
EncAppendTime ==
    /\ MayAppend
    /\ \E slot \in Bit, err \in {Nil, ErrWrite} : enc' = AppendTime(enc, slot, err)
    /\ drv' = EncCalled("AppendTime")
    /\ UNCHANGED <<memdbVars, pts, appVars, poolVars, blk, pay, dec>>

\* ... appends a value, ...
EncAppendValue ==
    /\ MayAppend
    /\ \E value \in Values, err \in {Nil, ErrWrite} : enc' = AppendValue(enc, value, err)
    /\ drv' = EncCalled("AppendValue")
    /\ UNCHANGED <<memdbVars, pts, appVars, poolVars, blk, pay, dec>>

\* ... takes the block, ...
EncBytes ==
    /\ \/ drv.mode = "encoder" /\ drv.calls < MaxEncodes
       \/ drv.mode # "encoder" /\ ~blk.called
    /\ \E err \in {Nil, ErrWrite} :
         /\ blk' = Bytes(enc, err)
         /\ enc' = Flushed(enc, err)
    /\ drv' = EncCalled("Bytes")
    /\ UNCHANGED <<memdbVars, pts, appVars, poolVars, pay, dec>>

\* ... takes the block without its header, ...
EncBytesWithoutTime ==
    /\ \/ drv.mode = "encoder" /\ drv.calls < MaxEncodes
       \/ drv.mode = "payload" /\ blk.called /\ ~pay.called
    /\ \E err \in {Nil, ErrWrite} :
         /\ pay' = BytesWithoutTime(enc, err)
         /\ enc' = Flushed(enc, err)
    /\ drv' = EncCalled("BytesWithoutTime")
    /\ UNCHANGED <<memdbVars, pts, appVars, poolVars, blk, dec>>

\* ... and resets the encoder to use it again.
EncReset ==
    /\ drv.mode = "encoder" /\ drv.calls < MaxEncodes
    /\ enc' = tsdEncoderReset(enc)
    /\ drv' = EncCalled("Reset")
    /\ UNCHANGED <<memdbVars, pts, appVars, poolVars, blk, pay, dec>>

\* ---------------------------------------------------------------- decoder
\* &TSDDecoder{}: no buffer, no reader, no values; every number zero
TSDDecoderZero ==
    [startTime |-> 0, endTime |-> 0, hasBuf |-> FALSE, data |-> <<>>, pos |-> 0,
     idx |-> 0, err |-> Nil, first |-> TRUE, prev |-> 0]

\* d.reset(data): a new buffer, reader and value decoder, or the old ones
\* given the new data
resetKeepsCursor(d, data) ==
    [d EXCEPT !.hasBuf = TRUE, !.data = data.bytes, !.pos = 0,
              !.first = TRUE, !.prev = 0, !.err = Nil]
reset(d, data) ==
    [d EXCEPT !.hasBuf = TRUE, !.data = data.bytes, !.pos = 0,
              !.first = TRUE, !.prev = 0, !.idx = 0, !.err = Nil]

\* d.ResetWithTimeRange(data, start, end)
ResetWithTimeRangePastHeader(d, data, start, end) ==
    [reset(d, data) EXCEPT !.startTime = start, !.endTime = end, !.pos = 8 * 4]
ResetWithTimeRange(d, data, start, end) ==
    [reset(d, data) EXCEPT !.startTime = start, !.endTime = end]

\* d.Reset(data)
Reset(d, data) ==
    IF Len(data.bytes) <= 4 THEN [d EXCEPT !.err = ErrBadData]
    ELSE [reset(d, data) EXCEPT !.startTime = LittleEndianUint16(data.bytes, 0),
                                !.endTime = LittleEndianUint16(data.bytes, 2),
                                !.pos = 8 * 4]

\* NewTSDDecoder(data)
NewTSDDecoder(data) ==
    IF Len(data.bytes) > 4 THEN Reset(TSDDecoderZero, data) ELSE TSDDecoderZero

Error(d) == d.err
StartTime(d) == d.startTime
EndTime(d) == d.endTime
Slot(d) == Uint16(d.startTime + d.idx - 1)

\* DecodeTSDTime(data)
DecodeTSDTime(data) ==
    <<LittleEndianUint16(data.bytes, 0), LittleEndianUint16(data.bytes, 2)>>

\* d.Next(): the decoder after the call and what the call returned
TSDDecoderNext(d) ==
    IF Uint16(d.startTime + d.idx) <= d.endTime
    THEN [dec |-> [d EXCEPT !.idx = Uint16(@ + 1)], ret |-> TRUE]
    ELSE [dec |-> d, ret |-> FALSE]

\* d.HasValue()
HasValue(d) ==
    IF ~d.hasBuf THEN [dec |-> d, ret |-> FALSE]
    ELSE IF d.pos >= 8 * Len(d.data)
    THEN [dec |-> [d EXCEPT !.err = ErrEOF], ret |-> FALSE]
    ELSE [dec |-> [d EXCEPT !.pos = @ + 1], ret |-> BitAt(d.data, d.pos) = 1]

\* d.HasValueWithSlot(slot)
HasValueWithSlotAnyInRange(d, slot) ==
    IF slot < d.startTime \/ slot > d.endTime THEN [dec |-> d, ret |-> FALSE]
    ELSE HasValue([d EXCEPT !.idx = Uint16(@ + 1)])
HasValueWithSlot(d, slot) ==
    IF slot < d.startTime \/ slot > d.endTime THEN [dec |-> d, ret |-> FALSE]
    ELSE IF slot = Uint16(d.idx + d.startTime)
    THEN HasValue([d EXCEPT !.idx = Uint16(@ + 1)])
    ELSE [dec |-> d, ret |-> FALSE]

\* d.Value()
Value(d) ==
    IF ~d.hasBuf THEN [dec |-> d, ret |-> 0]
    ELSE LET r == XORDecoderNext(d.data, d.pos, d.first, d.prev)
         IN IF r.ok
            THEN [dec |-> [d EXCEPT !.pos = r.pos, !.first = FALSE, !.prev = r.value],
                  ret |-> r.value]
            ELSE [dec |-> [d EXCEPT !.pos = r.pos], ret |-> 0]

\* What the encoders of SpecDecoder were fed: a start time and the slots.
Slot0 == [present |-> 0, value |-> NoValue]
Slot1(value) == [present |-> 1, value |-> value]
Feeds ==
    { <<10, <<Slot1(5), Slot0, Slot1(6)>> >>,
      <<0, <<Slot0, Slot1(6)>> >>,
      <<65534, <<Slot1(5), Slot0>> >>,
      <<65535, <<Slot0>> >>,
      <<65535, <<Slot1(5), Slot1(5)>> >> }

\* The encoder after it was fed the slots, without error
RECURSIVE Fed(_, _)
Fed(startTime, slots) ==
    IF slots = <<>> THEN NewTSDEncoder(startTime)
    ELSE LET last == slots[Len(slots)]
             e == AppendTime(Fed(startTime, SubSeq(slots, 1, Len(slots) - 1)),
                             last.present, Nil)
         IN IF last.present = 1 THEN AppendValue(e, last.value, Nil) ELSE e

\* A second block a caller of the decoder has at hand
OtherBlock == Bytes(Fed(20, <<Slot1(6), Slot0>>), Nil).data

\* --------------------------------------------------- the decoder's caller
\* drv records what the caller of the decoder has done since it last gave the
\* decoder data: the last call and what it returned, how often Next()
\* returned true and whether it has returned false, whether the last Reset was
\* refused, whether it has called nothing but Next(), and, as long as the
\* caller decodes slot by slot (Next(), then
\* HasValue(), then Value() if the slot is present; expect names the call that
\* is due, "data" before the decoder was given any), the slots it has decoded.
\* A caller who compares two decoders also keeps the calls it made in hist.
DrvInit(mode) ==
    [mode |-> mode, calls |-> 0, last |-> "none", ret |-> FALSE, value |-> 0,
     expect |-> "data", got |-> <<>>, nexts |-> 0, ended |-> FALSE,
     refused |-> FALSE, onlyNext |-> TRUE, hist |-> <<>>, given |-> <<>>,
     reused |-> FALSE]

\* The caller has given the decoder data it took: given is the data, and
\* reused tells whether the decoder had decoded slots or held an error then.
Given(name, data) ==
    [drv EXCEPT !.calls = @ + 1, !.last = name, !.ret = FALSE, !.value = 0,
                !.expect = "Next", !.got = <<>>, !.nexts = 0, !.ended = FALSE,
                !.refused = FALSE, !.onlyNext = TRUE, !.given = data.bytes,
                !.reused = dec.idx > 0 \/ dec.err # Nil]

\* The caller has given the decoder data it refused.
Refused(name) ==
    [drv EXCEPT !.calls = @ + 1, !.last = name, !.ret = FALSE, !.value = 0,
                !.expect = "broken", !.refused = TRUE]

\* The data a caller has at hand: the block of the encoder, and data too short
\* to be a block.
ShortData == {NilBytes, ByteSlice(<<10, 0, 10, 0>>)}
DataAtHand ==
    ShortData \cup (IF blk.called /\ ~blk.data.isNil THEN {blk.data} ELSE {})
    \cup (IF drv.mode = "free" THEN {OtherBlock} ELSE {})

\* Time ranges given to ResetWithTimeRange
TimeRanges == {<<10, 11>>, <<65534, 65535>>}

\* The caller may make one more call on the decoder.
MayCall(name) ==
    /\ blk.called
    /\ \/ drv.mode = "free" /\ drv.calls < MaxDecodes
       \/ /\ drv.mode \in {"lockstep", "payload"}
          /\ drv.expect = name /\ drv.nexts <= MaxAppends

\* The calls made on the decoder, kept by a caller who compares two decoders
Logged(name) == IF drv.mode = "payload" THEN Append(drv.hist, name) ELSE drv.hist

DecNew ==
    /\ blk.called
    /\ drv.last = "none"
    /\ \E data \in DataAtHand :
         /\ drv.mode = "lockstep" => data = blk.data
         /\ dec' = NewTSDDecoder(data)
         /\ drv' = IF Len(data.bytes) <= 4 THEN Refused("NewTSDDecoder")
                   ELSE Given("NewTSDDecoder", data)
    /\ UNCHANGED <<memdbVars, pts, appVars, poolVars, enc, blk, pay>>

DecReset ==
    /\ blk.called
    /\ \/ drv.mode = "free" /\ drv.calls < MaxDecodes
       \/ drv.mode = "lockstep" /\ drv.last = "none"
    /\ \E data \in DataAtHand :
         /\ drv.mode = "lockstep" => data = blk.data
         /\ dec' = Reset(dec, data)
         /\ drv' = IF Len(data.bytes) <= 4 THEN Refused("Reset") ELSE Given("Reset", data)
    /\ UNCHANGED <<memdbVars, pts, appVars, poolVars, enc, blk, pay>>

\* The caller gives the decoder bytes without a header and a time range: one
\* who makes the calls it likes the payload of the block and a range of
\* TimeRanges, one who compares two decoders what BytesWithoutTime()
\* returned and the range of the block's header.
DecResetWithTimeRange ==
    /\ ~blk.data.isNil
    /\ \/ drv.mode = "free" /\ drv.calls < MaxDecodes
       \/ drv.mode = "payload" /\ drv.last = "none" /\ pay.called /\ ~pay.data.isNil
    /\ \E range \in (IF drv.mode = "free" THEN TimeRanges ELSE {DecodeTSDTime(blk.data)}) :
         LET data == IF drv.mode = "free"
                     THEN ByteSlice(SubSeq(blk.data.bytes, 5, Len(blk.data.bytes)))
                     ELSE pay.data
         IN /\ dec' = ResetWithTimeRange(dec, data, range[1], range[2])
            /\ drv' = Given("ResetWithTimeRange", data)
    /\ UNCHANGED <<memdbVars, pts, appVars, poolVars, enc, blk, pay>>

DecNext ==
    /\ MayCall("Next")
    /\ LET r == TSDDecoderNext(dec) IN
         /\ dec' = r.dec
         /\ drv' = [drv EXCEPT
                      !.calls = @ + 1, !.last = "Next", !.hist = Logged("Next"), !.ret = r.ret, !.value = 0,
                      !.nexts = IF r.ret THEN @ + 1 ELSE @,
                      !.ended = @ \/ ~r.ret,
                      !.expect = IF @ # "Next" THEN "broken"
                                 ELSE IF r.ret THEN "HasValue" ELSE "end"]
    /\ UNCHANGED <<memdbVars, pts, appVars, poolVars, enc, blk, pay>>

DecHasValue ==
    /\ MayCall("HasValue")
    /\ LET r == HasValue(dec) IN
         /\ dec' = r.dec
         /\ drv' = [drv EXCEPT
                      !.calls = @ + 1, !.last = "HasValue", !.hist = Logged("HasValue"), !.onlyNext = FALSE, !.ret = r.ret, !.value = 0,
                      !.got = IF drv.expect = "HasValue"
                              THEN Append(@, [present |-> IF r.ret THEN 1 ELSE 0,
                                              value |-> NoValue])
                              ELSE @,
                      !.expect = IF @ # "HasValue" THEN "broken"
                                 ELSE IF r.ret THEN "Value" ELSE "Next"]
    /\ UNCHANGED <<memdbVars, pts, appVars, poolVars, enc, blk, pay>>

\* The slots a caller asks HasValueWithSlot for: the one after the last, the
\* one after that, the one before the first and one not in the block.
SlotsAsked(d) ==
    {Uint16(d.startTime + d.idx), Uint16(d.startTime + d.idx + 1),
     Uint16(d.startTime - 1), 300}

DecHasValueWithSlot ==
    /\ drv.mode = "free" /\ drv.calls < MaxDecodes
    /\ \E slot \in SlotsAsked(dec) :
         LET r == HasValueWithSlot(dec, slot)
             moved == r.dec.idx # dec.idx
         IN /\ dec' = r.dec
            /\ drv' = [drv EXCEPT
                         !.calls = @ + 1, !.last = "HasValueWithSlot", !.hist = Logged("HasValueWithSlot"), !.onlyNext = FALSE, !.ret = r.ret,
                         !.value = slot,
                         !.got = IF drv.expect = "Next" /\ moved
                                 THEN Append(@, [present |-> IF r.ret THEN 1 ELSE 0,
                                                 value |-> NoValue])
                                 ELSE @,
                         !.expect = IF ~moved THEN @
                                    ELSE IF @ # "Next" THEN "broken"
                                    ELSE IF r.ret THEN "Value" ELSE "Next"]
    /\ UNCHANGED <<memdbVars, pts, appVars, poolVars, enc, blk, pay>>

DecValue ==
    /\ MayCall("Value")
    /\ LET r == Value(dec) IN
         /\ dec' = r.dec
         /\ drv' = [drv EXCEPT
                      !.calls = @ + 1, !.last = "Value", !.hist = Logged("Value"), !.onlyNext = FALSE, !.ret = FALSE, !.value = r.ret,
                      !.got = IF drv.expect = "Value"
                              THEN [@ EXCEPT ![Len(@)].value = r.ret] ELSE @,
                      !.expect = IF @ # "Value" THEN "broken" ELSE "Next"]
    /\ UNCHANGED <<memdbVars, pts, appVars, poolVars, enc, blk, pay>>

\* The codec when nobody uses it.
CodecIdle ==
    /\ enc = NewTSDEncoder(0)
    /\ blk = NoBytes
    /\ pay = NoBytes
    /\ dec = TSDDecoderZero
    /\ drv = DrvInit("none")

\* A new encoder, whose caller appends what it likes in the order it likes,
\* takes the block, and gives it to a new decoder that it drives slot by slot.
InitTSD ==
    /\ NewMemoryDatabase
    /\ pts = Points
    /\ \E startTime \in StartTimes : enc = NewTSDEncoder(startTime)
    /\ blk = NoBytes
    /\ pay = NoBytes
    /\ dec = TSDDecoderZero
    /\ drv = DrvInit("lockstep")
    /\ PoolIdle
    /\ AppIdle

NextTSD ==
    \/ EncAppendTime
    \/ EncAppendValue
    \/ EncBytes
    \/ DecNew
    \/ DecReset
    \/ DecNext
    \/ DecHasValue
    \/ DecValue

SpecTSD == InitTSD /\ [][NextTSD]_vars

\* A decoder whose caller has the block of an encoder and data too short to be
\* a block, and makes the calls it likes in the order it likes.
InitDecoder ==
    /\ NewMemoryDatabase
    /\ pts = Points
    /\ \E feed \in Feeds :
         /\ enc = Fed(feed[1], feed[2])
         /\ blk = Bytes(Fed(feed[1], feed[2]), Nil)
    /\ pay = NoBytes
    /\ dec = TSDDecoderZero
    /\ drv = DrvInit("free")
    /\ PoolIdle
    /\ AppIdle

NextDecoder ==
    \/ DecNew
    \/ DecReset
    \/ DecResetWithTimeRange
    \/ DecNext
    \/ DecHasValue
    \/ DecHasValueWithSlot
    \/ DecValue

SpecDecoder == InitDecoder /\ [][NextDecoder]_vars

\* A new encoder, whose caller appends, resets and takes the block with and
\* without its header as it likes.
InitEncoder ==
    /\ NewMemoryDatabase
    /\ pts = Points
    /\ \E startTime \in StartTimes : enc = NewTSDEncoder(startTime)
    /\ blk = NoBytes
    /\ pay = NoBytes
    /\ dec = TSDDecoderZero
    /\ drv = DrvInit("encoder")
    /\ PoolIdle
    /\ AppIdle

NextEncoder ==
    \/ EncAppendTime
    \/ EncAppendValue
    \/ EncBytes
    \/ EncBytesWithoutTime
    \/ EncReset

SpecEncoder == InitEncoder /\ [][NextEncoder]_vars

\* A new encoder, whose caller appends what it likes, takes the block with
\* and then without its header, and gives the bytes without header and the
\* time range of the header to a new decoder that it drives slot by slot.
InitPayload ==
    /\ NewMemoryDatabase
    /\ pts = Points
    /\ \E startTime \in StartTimes : enc = NewTSDEncoder(startTime)
    /\ blk = NoBytes
    /\ pay = NoBytes
    /\ dec = TSDDecoderZero
    /\ drv = DrvInit("payload")
    /\ PoolIdle
    /\ AppIdle

NextPayload ==
    \/ EncAppendTime
    \/ EncAppendValue
    \/ EncBytes
    \/ EncBytesWithoutTime
    \/ DecResetWithTimeRange
    \/ DecNext
    \/ DecHasValue
    \/ DecValue

SpecPayload == InitPayload /\ [][NextPayload]_vars

\* The decoder after the calls were made on d, and what the last of them
\* returned
RECURSIVE Replay(_, _)
Replay(d, calls) ==
    IF calls = <<>> THEN [dec |-> d, ret |-> FALSE, value |-> 0]
    ELSE LET before == Replay(d, SubSeq(calls, 1, Len(calls) - 1)).dec
             name == calls[Len(calls)]
         IN IF name = "Next"
            THEN [dec |-> TSDDecoderNext(before).dec,
                  ret |-> TSDDecoderNext(before).ret, value |-> 0]
            ELSE IF name = "HasValue"
            THEN [dec |-> HasValue(before).dec, ret |-> HasValue(before).ret, value |-> 0]
            ELSE [dec |-> Value(before).dec, ret |-> FALSE, value |-> Value(before).ret]

\* ------------------------------------------------ package concurrent, goroutines
\* The calls made on the pool so far
Submits ==
    LET RECURSIVE Sum(_)
        Sum(cs) == IF cs = {} THEN 0
                   ELSE LET c == CHOOSE x \in cs : TRUE
                        IN callers[c].calls + Sum(cs \ {c})
    IN Sum(Callers)

\* The workers whose goroutine has not returned
LiveWorkers == {w \in 1..Len(workers) : workers[w].pc # "dead"}

\* p.Stopped()
Stopped == pool.stopped

\* ---------------------------------------------------------------- workers
\* newWorker(pool): the gauge and the counter are incremented and the
\* goroutine of w.process is started; task is what the creator gives it
newWorker(task) ==
    /\ workers' = Append(workers, [pc |-> IF task = NoTask THEN "select" ELSE "task",
                                   task |-> task])
    /\ pool' = [pool EXCEPT !.workersAlive = Incr(@), !.workersCreated = Incr(@)]

\* w.process: the task received from w.tasks is run, ...
WorkerTask(w) ==
    /\ workers[w].pc = "task"
    /\ workers' = [workers EXCEPT ![w].pc = "ran"]
    /\ ran' = [ran EXCEPT ![workers[w].task].runs = @ + 1]
    /\ callers' = [c \in Callers |->
                     IF callers[c].pc = "wait" /\ callers[c].task = workers[w].task
                     THEN [callers[c] EXCEPT !.pc = "woken"] ELSE callers[c]]
    /\ UNCHANGED <<memdbVars, pts, appVars, codecVars, pool, dispatcher, stopper>>

\* ... and the worker registers itself in readyWorkers again.
WorkerReady(w) ==
    /\ workers[w].pc = "ran"
    /\ Len(pool.readyWorkers) < readyWorkerQueueSize
    /\ workers' = [workers EXCEPT ![w].pc = "select", ![w].task = NoTask]
    /\ pool' = [pool EXCEPT !.tasksConsumed = Incr(@),
                            !.readyWorkers = Append(@, w)]
    /\ UNCHANGED <<memdbVars, pts, appVars, codecVars, dispatcher, callers, stopper, ran>>

\* w.execute(task) on a worker taken from readyWorkers: w.process receives it
execute(w, task) ==
    workers' = [workers EXCEPT ![w].pc = "task", ![w].task = task]

\* w.stop(callable) on a worker taken from readyWorkers: w.process receives
\* from stopCh and returns, the counter and the gauge are updated
stop(w) ==
    /\ workers' = [workers EXCEPT ![w].pc = "dead"]
    /\ pool' = [pool EXCEPT !.readyWorkers = Tail(@),
                            !.workersKilled = Incr(@), !.workersAlive = Decr(@)]

\* ------------------------------------------------------------- dispatcher
\* dispatch: the select takes a task from p.tasks, ...
DispatchTask ==
    /\ dispatcher.pc = "select"
    /\ pool.tasks # <<>>
    /\ dispatcher' = [dispatcher EXCEPT !.pc = "mustGetWorker", !.task = Head(pool.tasks)]
    /\ pool' = [pool EXCEPT !.tasks = Tail(@)]
    /\ UNCHANGED <<memdbVars, pts, appVars, codecVars, workers, callers, stopper, ran>>

\* mustGetWorker in the dispatcher: a ready worker is taken and given the
\* task; with none ready and fewer than maxWorkers alive a worker is to be
\* created; otherwise the dispatcher sleeps and tries again.
DispatchMustGetWorker ==
    /\ dispatcher.pc = "mustGetWorker"
    /\ IF pool.readyWorkers # <<>>
       THEN /\ execute(Head(pool.readyWorkers), dispatcher.task)
            /\ pool' = [pool EXCEPT !.readyWorkers = Tail(@)]
            /\ dispatcher' = [dispatcher EXCEPT !.pc = "select", !.task = NoTask]
       ELSE /\ pool.workersAlive < pool.maxWorkers
            /\ dispatcher' = [dispatcher EXCEPT !.pc = "newWorker"]
            /\ UNCHANGED <<workers, pool>>
    /\ UNCHANGED <<memdbVars, pts, appVars, codecVars, callers, stopper, ran>>

\* newWorker in the dispatcher, and worker.execute(task)
DispatchNewWorker ==
    /\ dispatcher.pc = "newWorker"
    /\ newWorker(dispatcher.task)
    /\ dispatcher' = [dispatcher EXCEPT !.pc = "select", !.task = NoTask]
    /\ UNCHANGED <<memdbVars, pts, appVars, codecVars, callers, stopper, ran>>

\* dispatch: the idle timer fires; a ready worker, if there is one, is stopped
DispatchIdleTimeout ==
    /\ dispatcher.pc = "select"
    /\ dispatcher.kills < MaxIdleKills
    /\ pool.workersAlive > 0
    /\ pool.readyWorkers # <<>>
    /\ stop(Head(pool.readyWorkers))
    /\ dispatcher' = [dispatcher EXCEPT !.kills = @ + 1]
    /\ UNCHANGED <<memdbVars, pts, appVars, codecVars, callers, stopper, ran>>

\* dispatch: the select finds the context cancelled and dispatch returns; the
\* deferred send on onDispatcherStopped waits for Stop
DispatchDoneNoSignal ==
    /\ dispatcher.pc = "select"
    /\ pool.cancelled
    /\ dispatcher' = [dispatcher EXCEPT !.pc = "stopped"]
    /\ UNCHANGED <<memdbVars, pts, appVars, codecVars, pool, workers, callers, stopper, ran>>
DispatchDone ==
    /\ dispatcher.pc = "select"
    /\ pool.cancelled
    /\ dispatcher' = [dispatcher EXCEPT !.pc = "onDispatcherStopped"]
    /\ UNCHANGED <<memdbVars, pts, appVars, codecVars, pool, workers, callers, stopper, ran>>

\* ---------------------------------------------------------------- callers
\* Submit(task) and SubmitAndWait(task) begin: with a nil task or a stopped
\* pool they return at once
Call(c, name, task) ==
    /\ callers[c].pc \in {"idle", "returned"}
    /\ Submits < MaxSubmits
    /\ callers' = [callers EXCEPT
                     ![c].pc = IF task = NoTask \/ Stopped THEN "returned"
                               ELSE IF name = "Submit" THEN "send" ELSE "mustGetWorker",
                     ![c].call = name, ![c].task = task, ![c].calls = @ + 1,
                     ![c].stoppedAtCall = Stopped, ![c].worker = NoWorker]
    /\ ran' = IF task = NoTask THEN ran
              ELSE [ran EXCEPT ![task] = [call |-> name, stopped |-> Stopped,
                                          returned |-> Stopped, runs |-> 0]]
    /\ UNCHANGED <<memdbVars, pts, appVars, codecVars, pool, workers, dispatcher, stopper>>

Submit(c) ==
    \E task \in {NoTask, <<c, callers[c].calls + 1>>} : Call(c, "Submit", task)

SubmitAndWait(c) ==
    \E task \in {NoTask, <<c, callers[c].calls + 1>>} : Call(c, "SubmitAndWait", task)

\* Submit: p.tasks <- func() {...}, and Submit returns
SubmitSend(c) ==
    /\ callers[c].pc = "send"
    /\ Len(pool.tasks) < tasksCapacity
    /\ pool' = [pool EXCEPT !.tasks = Append(@, callers[c].task)]
    /\ callers' = [callers EXCEPT ![c].pc = "returned"]
    /\ ran' = [ran EXCEPT ![callers[c].task].returned = TRUE]
    /\ UNCHANGED <<memdbVars, pts, appVars, codecVars, workers, dispatcher, stopper>>

\* mustGetWorker that leaves the worker it takes in readyWorkers.
WaitMustGetWorkerKeepsReady(c) ==
    /\ callers[c].pc = "mustGetWorker"
    /\ IF pool.readyWorkers # <<>>
       THEN /\ execute(Head(pool.readyWorkers), callers[c].task)
            /\ pool' = pool
            /\ callers' = [callers EXCEPT ![c].pc = "wait",
                                          ![c].worker = Head(pool.readyWorkers)]
       ELSE /\ pool.workersAlive < pool.maxWorkers
            /\ callers' = [callers EXCEPT ![c].pc = "newWorker"]
            /\ UNCHANGED <<workers, pool>>
    /\ UNCHANGED <<memdbVars, pts, appVars, codecVars, dispatcher, stopper, ran>>

\* mustGetWorker in SubmitAndWait, and worker.execute with a ready worker
WaitMustGetWorker(c) ==
    /\ callers[c].pc = "mustGetWorker"
    /\ IF pool.readyWorkers # <<>>
       THEN /\ execute(Head(pool.readyWorkers), callers[c].task)
            /\ pool' = [pool EXCEPT !.readyWorkers = Tail(@)]
            /\ callers' = [callers EXCEPT ![c].pc = "wait",
                                          ![c].worker = Head(pool.readyWorkers)]
       ELSE /\ pool.workersAlive < pool.maxWorkers
            /\ callers' = [callers EXCEPT ![c].pc = "newWorker"]
            /\ UNCHANGED <<workers, pool>>
    /\ UNCHANGED <<memdbVars, pts, appVars, codecVars, dispatcher, stopper, ran>>

\* newWorker in SubmitAndWait, and worker.execute
WaitNewWorker(c) ==
    /\ callers[c].pc = "newWorker"
    /\ newWorker(callers[c].task)
    /\ callers' = [callers EXCEPT ![c].pc = "wait", ![c].worker = Len(workers) + 1]
    /\ UNCHANGED <<memdbVars, pts, appVars, codecVars, dispatcher, stopper, ran>>

\* SubmitAndWait: <-doneChan, and SubmitAndWait returns
WaitDoneEarly(c) ==
    /\ callers[c].pc \in {"wait", "woken"}
    /\ callers' = [callers EXCEPT ![c].pc = "returned"]
    /\ ran' = [ran EXCEPT ![callers[c].task].returned = TRUE]
    /\ UNCHANGED <<memdbVars, pts, appVars, codecVars, pool, workers, dispatcher, stopper>>
WaitDone(c) ==
    /\ callers[c].pc = "woken"
    /\ callers' = [callers EXCEPT ![c].pc = "returned"]
    /\ ran' = [ran EXCEPT ![callers[c].task].returned = TRUE]
    /\ UNCHANGED <<memdbVars, pts, appVars, codecVars, pool, workers, dispatcher, stopper>>

\* ------------------------------------------------------------------- Stop
\* The tasks for which Submit has returned
SubmitReturned ==
    {t \in Tasks : ran[t].call = "Submit" /\ ~ran[t].stopped /\ ran[t].returned}

\* Stop: p.stopped.Swap(true) and p.cancel(); submitted keeps the tasks for
\* which Submit had returned, and queued, held and running those of them that
\* were in p.tasks, in the hands of the dispatcher and on a worker
Stop ==
    /\ stopper.pc = "idle"
    /\ ~pool.stopped
    /\ pool' = [pool EXCEPT !.stopped = TRUE, !.cancelled = TRUE]
    /\ stopper' = [stopper EXCEPT
                     !.pc = "onDispatcherStopped",
                     !.submitted = SubmitReturned,
                     !.queued = {pool.tasks[i] : i \in 1..Len(pool.tasks)},
                     !.held = {dispatcher.task} \cap SubmitReturned,
                     !.running = {t \in SubmitReturned :
                                    \E w \in 1..Len(workers) :
                                      workers[w].pc = "task" /\ workers[w].task = t}]
    /\ UNCHANGED <<memdbVars, pts, appVars, codecVars, workers, dispatcher, callers, ran>>

\* Stop: <-p.onDispatcherStopped, the dispatcher's send
StopDispatcherStopped ==
    /\ stopper.pc = "onDispatcherStopped"
    /\ dispatcher.pc = "onDispatcherStopped"
    /\ stopper' = [stopper EXCEPT !.pc = "stopWorkers"]
    /\ dispatcher' = [dispatcher EXCEPT !.pc = "stopped"]
    /\ UNCHANGED <<memdbVars, pts, appVars, codecVars, pool, workers, callers, ran>>

\* stopWorkers: the loop reads workersAlive; with none alive wg.Wait returns
\* at once, every stop having called wg.Done before it returned
StopWorkers ==
    /\ stopper.pc = "stopWorkers"
    /\ stopper' = [stopper EXCEPT !.pc = IF pool.workersAlive > 0 THEN "stopWorker"
                                         ELSE "consumedRemainingTasks"]
    /\ UNCHANGED <<memdbVars, pts, appVars, codecVars, pool, workers, dispatcher, callers, ran>>

\* stopWorkers: worker := <-p.readyWorkers, and worker.stop
StopWorker ==
    /\ stopper.pc = "stopWorker"
    /\ pool.readyWorkers # <<>>
    /\ stop(Head(pool.readyWorkers))
    /\ stopper' = [stopper EXCEPT !.pc = "stopWorkers"]
    /\ UNCHANGED <<memdbVars, pts, appVars, codecVars, dispatcher, callers, ran>>

\* consumedRemainingTasks: the buffered tasks are run by Stop itself, and Stop
\* returns
StopConsumedRemainingTasksDropped ==
    /\ stopper.pc = "consumedRemainingTasks"
    /\ stopper' = [stopper EXCEPT !.pc = "returned"]
    /\ UNCHANGED <<pool, ran>>
    /\ UNCHANGED <<memdbVars, pts, appVars, codecVars, workers, dispatcher, callers>>
StopConsumedRemainingTasks ==
    /\ stopper.pc = "consumedRemainingTasks"
    /\ IF pool.tasks # <<>>
       THEN /\ pool' = [pool EXCEPT !.tasks = Tail(@), !.tasksConsumed = Incr(@)]
            /\ ran' = [ran EXCEPT ![Head(pool.tasks)].runs = @ + 1]
            /\ UNCHANGED stopper
       ELSE /\ stopper' = [stopper EXCEPT !.pc = "returned"]
            /\ UNCHANGED <<pool, ran>>
    /\ UNCHANGED <<memdbVars, pts, appVars, codecVars, workers, dispatcher, callers>>

\* A second call of Stop, after or during the first: p.stopped.Swap(true)
\* returns true and Stop returns
StopSecond ==
    /\ stopper.pc # "idle"
    /\ stopper.second = "idle"
    /\ pool.stopped
    /\ stopper' = [stopper EXCEPT !.second = "returned"]
    /\ UNCHANGED <<memdbVars, pts, appVars, codecVars, pool, workers, dispatcher, callers, ran>>

\* A pool that callers use from two goroutines and that one goroutine stops.
InitPool ==
    /\ NewMemoryDatabase
    /\ pts = Points
    /\ CodecIdle
    /\ AppIdle
    /\ \E maxWorkers \in MaxWorkersGiven : NewPool(maxWorkers)

NextPool ==
    \/ \E w \in 1..Len(workers) : WorkerTask(w) \/ WorkerReady(w)
    \/ DispatchTask
    \/ DispatchMustGetWorker
    \/ DispatchNewWorker
    \/ DispatchIdleTimeout
    \/ DispatchDone
    \/ \E c \in Callers :
         \/ Submit(c)
         \/ SubmitAndWait(c)
         \/ SubmitSend(c)
         \/ WaitMustGetWorker(c)
         \/ WaitNewWorker(c)
         \/ WaitDone(c)
    \/ Stop
    \/ StopDispatcherStopped
    \/ StopWorkers
    \/ StopWorker
    \/ StopConsumedRemainingTasks

SpecPool == InitPool /\ [][NextPool]_vars

\* The steps of the goroutines of the pool and of the calls under way: what
\* the scheduler runs when it can. Calling Submit, SubmitAndWait or Stop, and
\* the idle timer, are left to their callers.
WorkerSteps == \E w \in 1..Len(workers) : WorkerTask(w) \/ WorkerReady(w)

DispatchSteps ==
    DispatchTask \/ DispatchMustGetWorker \/ DispatchNewWorker \/ DispatchDone

CallSteps ==
    \E c \in Callers :
        SubmitSend(c) \/ WaitMustGetWorker(c) \/ WaitNewWorker(c) \/ WaitDone(c)

StopSteps ==
    StopDispatcherStopped \/ StopWorkers \/ StopWorker \/ StopConsumedRemainingTasks

\* The pool, on which Stop may be called a second time, with every goroutine
\* scheduled again and again, and every task returning.
NextStop == NextPool \/ StopSecond

FairSpecPool ==
    /\ InitPool /\ [][NextStop]_vars
    /\ WF_vars(WorkerSteps)
    /\ WF_vars(DispatchSteps)
    /\ WF_vars(CallSteps)
    /\ WF_vars(StopSteps)

\* --------------------------------------------- package storage, goroutines
notClusterVars == <<memdbVars, pts, codecVars, poolVars, leaf, rt>>

\* The controllers of c.clusters, in the order of a range over the map
Registered(clusters) ==
    LET names == SelectSeq(ClusterNameSeq, LAMBDA n : clusters[n] # NoCluster)
    IN  [i \in 1..Len(names) |-> clusters[names[i]]]

\* Close was called on the controllers ids
Closed(controllers, ids) ==
    [i \in DOMAIN controllers |->
        IF i \in ids THEN [controllers[i] EXCEPT !.closes = @ + 1] ELSE controllers[i]]

\* A Close that swapped running has returned
CloseReturned ==
    \E k \in Closers : gor.closers[k].pc = "returned" /\ gor.closers[k].swapped

\* Some call of Close has returned
AnyCloseReturned == \E k \in Closers : gor.closers[k].pc = "returned"

\* c.deleteCluster(name): the map and the controllers after it
deleteCluster(name) ==
    LET id == csm.clusters[name]
    IN  IF id # NoCluster
        THEN [clusters |-> [csm.clusters EXCEPT ![name] = NoCluster],
              controllers |-> Closed(ctl, {id})]
        ELSE [clusters |-> csm.clusters, controllers |-> ctl]

\* OnCreate(key, resource) up to c.mutex.Lock() of addCluster: a resource
\* that is no JSON or has no name is logged and dropped
OnCreate(resource) ==
    /\ gor.listener.pc = "idle"
    /\ gor.listener.events < MaxEvents
    /\ csm.discovery = "watching"
    /\ LET parsed == JSONUnmarshal(resource)
       IN  gor' = [gor EXCEPT !.listener =
                     IF parsed.err \/ parsed.Name = ""
                     THEN [@ EXCEPT !.events = @ + 1]
                     ELSE [@ EXCEPT !.events = @ + 1, !.pc = "addCluster",
                                    !.name = parsed.Name]]
    /\ UNCHANGED <<notClusterVars, csm, ctl>>

\* addCluster under c.mutex: the old controller of the name is closed and
\* deleted, then the repo and the cluster are created
AddCluster(repoErr, result) ==
    /\ gor.listener.pc = "addCluster"
    /\ LET name == gor.listener.name
           del == deleteCluster(name)
           id == Len(del.controllers) + 1
       IN  IF repoErr
           THEN /\ csm' = [csm EXCEPT !.clusters = del.clusters]
                /\ ctl' = del.controllers
           ELSE IF result = "errNil"
           THEN /\ csm' = [csm EXCEPT !.clusters = del.clusters, !.repos = @ + 1,
                                      !.cleaned = @ + 1]
                /\ ctl' = del.controllers
           ELSE IF result = "errCluster"
           THEN /\ csm' = [csm EXCEPT !.clusters = del.clusters, !.repos = @ + 1,
                                      !.cleaned = @ + 1]
                /\ ctl' = Append(del.controllers, Controller(name, FALSE, 1))
           ELSE /\ csm' = [csm EXCEPT !.clusters = [del.clusters EXCEPT ![name] = id],
                                      !.repos = @ + 1]
                /\ ctl' = Append(del.controllers, Controller(name, TRUE, 0))
    /\ gor' = [gor EXCEPT !.listener.pc = "idle"]
    /\ UNCHANGED notClusterVars

\* OnDelete(key) up to c.mutex.Lock()
OnDelete(key) ==
    /\ gor.listener.pc = "idle"
    /\ gor.listener.events < MaxEvents
    /\ csm.discovery = "watching"
    /\ gor' = [gor EXCEPT !.listener =
                 [@ EXCEPT !.events = @ + 1, !.pc = "deleteCluster", !.name = Split(key).file]]
    /\ UNCHANGED <<notClusterVars, csm, ctl>>

\* OnDelete under c.mutex
OnDeleteLocked ==
    /\ gor.listener.pc = "deleteCluster"
    /\ LET del == deleteCluster(gor.listener.name)
       IN  /\ csm' = [csm EXCEPT !.clusters = del.clusters]
           /\ ctl' = del.controllers
    /\ gor' = [gor EXCEPT !.listener.pc = "idle"]
    /\ UNCHANGED notClusterVars

\* GetCluster(name)
GetCluster(name) ==
    /\ gor.collector.pc # "none"
    /\ gor' = [gor EXCEPT !.got =
                 [call |-> "GetCluster", name |-> name,
                  cluster |-> IF ~csm.running THEN NoCluster ELSE csm.clusters[name],
                  all |-> {}, closed |-> AnyCloseReturned]]
    /\ UNCHANGED <<notClusterVars, csm, ctl>>

\* GetAllCluster(): a slice nothing was appended to is nil
GetAllCluster ==
    /\ gor.collector.pc # "none"
    /\ gor' = [gor EXCEPT !.got =
                 [call |-> "GetAllCluster", name |-> "", cluster |-> NoCluster,
                  all |-> IF ~csm.running
                          THEN {}
                          ELSE {csm.clusters[n] : n \in ClusterNames} \ {NoCluster},
                  closed |-> AnyCloseReturned]]
    /\ UNCHANGED <<notClusterVars, csm, ctl>>

\* Close() of a state machine that does not compare running before it swaps
CloseWithoutCompare(k) ==
    /\ gor.closers[k].pc = "idle"
    /\ csm' = [csm EXCEPT !.running = FALSE]
    /\ gor' = [gor EXCEPT !.closers[k] = [pc |-> "lock", swapped |-> TRUE]]
    /\ UNCHANGED <<notClusterVars, ctl>>

\* Close(): c.running.CAS(true, false); a call that did not swap returns nil
Close(k) ==
    /\ gor.closers[k].pc = "idle"
    /\ IF csm.running
       THEN /\ csm' = [csm EXCEPT !.running = FALSE]
            /\ gor' = [gor EXCEPT !.closers[k] = [pc |-> "lock", swapped |-> TRUE]]
       ELSE /\ gor' = [gor EXCEPT !.closers[k].pc = "returned"]
            /\ csm' = csm
    /\ UNCHANGED <<notClusterVars, ctl>>

\* Close() under c.mutex: c.discovery.Close(), then cleanupCluster, which
\* closes every controller of the map and leaves it in the map
CloseLocked(k) ==
    /\ gor.closers[k].pc = "lock"
    /\ LET ids == Registered(csm.clusters)
       IN  /\ csm' = [csm EXCEPT !.discovery = "closed",
                                 !.closeCalls = @ \o <<[callee |-> "discovery", id |-> NoCluster]>>
                                                  \o [i \in DOMAIN ids |->
                                                        [callee |-> "cluster", id |-> ids[i]]]]
           /\ ctl' = Closed(ctl, {ids[i] : i \in DOMAIN ids})
    /\ gor' = [gor EXCEPT !.closers[k].pc = "deferred"]
    /\ UNCHANGED notClusterVars

\* The deferred func of Close() after c.mutex.Unlock(): c.timer.Stop(),
\* c.cancel(); then Close returns nil. Stop leaves what timer.C holds.
CloseDeferred(k) ==
    /\ gor.closers[k].pc = "deferred"
    /\ csm' = [csm EXCEPT !.timerSet = FALSE, !.cancelled = TRUE]
    /\ gor' = [gor EXCEPT !.closers[k].pc = "returned"]
    /\ UNCHANGED <<notClusterVars, ctl>>

\* c.timer fires: the time is sent on timer.C
TimerFires ==
    /\ csm.timerSet
    /\ gor.collector.ticks < MaxTicks
    /\ csm' = [csm EXCEPT !.timerSet = FALSE, !.timerC = 1]
    /\ gor' = [gor EXCEPT !.collector.ticks = @ + 1]
    /\ UNCHANGED <<notClusterVars, ctl>>

\* collectStat: case <-c.timer.C
CollectStatTimer ==
    /\ gor.collector.pc = "select"
    /\ csm.timerC = 1
    /\ csm' = [csm EXCEPT !.timerC = 0]
    /\ gor' = [gor EXCEPT !.collector.pc = "collect"]
    /\ UNCHANGED <<notClusterVars, ctl>>

\* collect() under c.mutex.RLock(): CollectStat of every controller of the map
collect ==
    /\ gor.collector.pc = "collect"
    /\ LET ids == Registered(csm.clusters)
       IN  ctl' = [i \in DOMAIN ctl |->
                     IF i \in {ids[j] : j \in DOMAIN ids}
                     THEN [ctl[i] EXCEPT !.late = IF CloseReturned THEN @ + 1 ELSE @]
                     ELSE ctl[i]]
    /\ gor' = [gor EXCEPT !.collector.pc = "reset"]
    /\ UNCHANGED <<notClusterVars, csm>>

\* collectStat: c.timer.Reset(c.interval)
CollectStatReset ==
    /\ gor.collector.pc = "reset"
    /\ csm' = [csm EXCEPT !.timerSet = TRUE]
    /\ gor' = [gor EXCEPT !.collector.pc = "select"]
    /\ UNCHANGED <<notClusterVars, ctl>>

\* collectStat: case <-c.ctx.Done()
CollectStatDone ==
    /\ gor.collector.pc = "select"
    /\ csm.cancelled
    /\ gor' = [gor EXCEPT !.collector.pc = "exited"]
    /\ UNCHANGED <<notClusterVars, csm, ctl>>

\* A new state machine whose discovery delivers events, with two callers of
\* Close and a reader
InitCluster ==
    /\ NewMemoryDatabase
    /\ pts = Points
    /\ CodecIdle
    /\ PoolIdle
    /\ LeafIdle
    /\ RuntimeIdle
    /\ NewClusterStateMachine

NextCluster ==
    \/ \E resource \in Resources : OnCreate(resource)
    \/ \E repoErr \in BOOLEAN, result \in NewClusterResults : AddCluster(repoErr, result)
    \/ \E key \in Keys : OnDelete(key)
    \/ OnDeleteLocked
    \/ \E name \in ClusterNames : GetCluster(name)
    \/ GetAllCluster
    \/ \E k \in Closers : Close(k)
    \/ \E k \in Closers : CloseLocked(k)
    \/ \E k \in Closers : CloseDeferred(k)
    \/ TimerFires
    \/ CollectStatTimer
    \/ collect
    \/ CollectStatReset
    \/ CollectStatDone

SpecCluster == InitCluster /\ [][NextCluster]_vars

\* ------------------------------------------ package storagequery, Process
\* processMetadataSuggest(db, shardIDs, req, stream): an executor error that
\* is not ErrNotFound is returned; else the values are sent to the parent
processMetadataSuggest(req, answers, counts) ==
    IF req.Payload = "bad"
    THEN Processed(Err("ErrUnmarshalSuggest"), <<>>, counts)
    ELSE LET result == answers.execute.values
             err == answers.execute.err
         IN  IF err # NoError /\ ~ErrorsIs(err, Err("ErrNotFound"))
             THEN Processed(err, <<>>, counts)
             ELSE Processed(IF answers.sendErr THEN Err("ErrSend") ELSE NoError,
                            <<TaskResponse(req.ParentTaskID, TRUE, "", result)>>, counts)

\* processDataSearch(ctx, db, shardIDs, req, leafNode): the query is
\* executed in the executor pool of the database, which sends the results
processDataSearch(req, counts) ==
    IF req.Payload = "bad"
    THEN Processed(Err("ErrUnmarshalQuery"), <<>>, counts)
    ELSE Processed(NoError, <<>>, counts)

\* The first leaf of the plan whose Indicator is that of this node
RECURSIVE FindLeaf(_)
FindLeaf(leafs) ==
    IF leafs = <<>> THEN NoLeaf
    ELSE IF Head(leafs).Indicator = CurrentNodeID THEN Head(leafs)
    ELSE FindLeaf(Tail(leafs))

\* process(ctx, req) of a node that asks for the database before it looks
\* for its leaf
processDatabaseFirst(req, answers) ==
    LET physicalPlan == req.PhysicalPlan
        curLeaf == FindLeaf(physicalPlan.Leafs)
        omit == [NoCounts EXCEPT !.omitted = 1]
    IN  IF ~physicalPlan.json
        THEN Processed(Errorf(Err("ErrUnmarshalPlan"), "json"), <<>>, NoCounts)
        ELSE IF physicalPlan.Database \notin Databases
        THEN Processed(Errorf(Err("ErrNoDatabase"), physicalPlan.Database), <<>>, omit)
        ELSE IF curLeaf = NoLeaf
        THEN Processed(Errorf(Err("ErrBadPhysicalPlan"), CurrentNodeID), <<>>, omit)
        ELSE IF curLeaf.Parent \notin answers.streams
        THEN Processed(Errorf(Err("ErrNoSendStream"), curLeaf.Parent), <<>>, omit)
        ELSE IF req.RequestType = "Data"
        THEN processDataSearch(req, [NoCounts EXCEPT !.metric = 1])
        ELSE IF req.RequestType = "Metadata"
        THEN processMetadataSuggest(req, answers, [NoCounts EXCEPT !.meta = 1])
        ELSE Processed(NoError, <<>>, omit)

\* process(ctx, req)
process(req, answers) ==
    LET physicalPlan == req.PhysicalPlan
        curLeaf == FindLeaf(physicalPlan.Leafs)
        omit == [NoCounts EXCEPT !.omitted = 1]
    IN  IF ~physicalPlan.json
        THEN Processed(Errorf(Err("ErrUnmarshalPlan"), "json"), <<>>, NoCounts)
        ELSE IF curLeaf = NoLeaf
        THEN Processed(Errorf(Err("ErrBadPhysicalPlan"), CurrentNodeID), <<>>, omit)
        ELSE IF physicalPlan.Database \notin Databases
        THEN Processed(Errorf(Err("ErrNoDatabase"), physicalPlan.Database), <<>>, omit)
        ELSE IF curLeaf.Parent \notin answers.streams
        THEN Processed(Errorf(Err("ErrNoSendStream"), curLeaf.Parent), <<>>, omit)
        ELSE IF req.RequestType = "Data"
        THEN processDataSearch(req, [NoCounts EXCEPT !.metric = 1])
        ELSE IF req.RequestType = "Metadata"
        THEN processMetadataSuggest(req, answers, [NoCounts EXCEPT !.meta = 1])
        ELSE Processed(NoError, <<>>, omit)

\* Process(ctx, stream, req): the error of process is sent on the stream
\* the request came from
Process ==
    /\ leaf.pc = "received"
    /\ LET done == process(leaf.req, leaf.answers)
       IN  leaf' = [leaf EXCEPT
                      !.pc = "processed",
                      !.err = done.err,
                      !.parentSent = done.parentSent,
                      !.counts = done.counts,
                      !.sent = IF done.err = NoError
                               THEN <<>>
                               ELSE <<TaskResponse(leaf.req.ParentTaskID, TRUE,
                                                   ErrorText(done.err), <<>>)>>]
    /\ UNCHANGED <<memdbVars, pts, codecVars, poolVars, clusterVars, rt>>

\* A leaf node that has received one of the requests
InitLeaf ==
    /\ NewMemoryDatabase
    /\ pts = Points
    /\ CodecIdle
    /\ PoolIdle
    /\ ClusterIdle
    /\ RuntimeIdle
    /\ \E req \in TaskRequests, answers \in Answers :
         leaf = [pc |-> "received", req |-> req, answers |-> answers, err |-> NoError,
                 sent |-> <<>>, parentSent |-> <<>>, counts |-> NoCounts]

NextLeaf == Process

SpecLeaf == InitLeaf /\ [][NextLeaf]_vars

\* ------------------------------------------------- package broker, runtime
notRuntimeVars == <<memdbVars, pts, codecVars, poolVars, clusterVars, leaf>>

\* Run returns err
RunReturns(r, err) == [r EXCEPT !.pc = "returned", !.result = err]

\* Run: getHostIP and hostName; a host without a name is "unknown"
RunGetHostIP(ipErr, nameErr) ==
    /\ rt.pc = "new"
    /\ rt.stop = "idle"
    /\ rt' = IF ipErr
             THEN RunReturns([rt EXCEPT !.state = "Failed"], "errHostIP")
             ELSE [rt EXCEPT !.pc = "startStateRepo",
                             !.hostName = IF nameErr THEN "unknown" ELSE "host",
                             !.logged = IF nameErr THEN @ \cup {"hostName"} ELSE @]
    /\ UNCHANGED notRuntimeVars

\* Run: r.startStateRepo(), then the factories and the service dependencies
RunStartStateRepo(err) ==
    /\ rt.pc = "startStateRepo"
    /\ rt' = IF err
             THEN RunReturns([rt EXCEPT !.state = "Failed",
                                        !.logged = @ \cup {"startStateRepo"}],
                             "errStateRepo")
             ELSE [rt EXCEPT !.pc = "stateMachines", !.component.repo = "started"]
    /\ UNCHANGED notRuntimeVars

\* Run: NewBrokerStateMachines and r.stateMachines.Start(); then NewMaster
\* and r.startGRPCServer()
RunStartStateMachines(err) ==
    /\ rt.pc = "stateMachines"
    /\ rt' = IF err
             THEN RunReturns([rt EXCEPT !.component.stateMachines = "set"],
                             "errStateMachines")
             ELSE [rt EXCEPT !.pc = "register",
                             !.component.stateMachines = "started",
                             !.component.master = "set",
                             !.component.grpcServer = "started"]
    /\ UNCHANGED notRuntimeVars

\* Run: NewRegistry and r.registry.Register(r.node); then r.master.Start(),
\* r.startHTTPServer() and r.systemCollector()
RunRegister(err) ==
    /\ rt.pc = "register"
    /\ rt' = IF err
             THEN RunReturns([rt EXCEPT !.component.registry = "set"], "errRegister")
             ELSE [rt EXCEPT !.pc = "nativePusher",
                             !.component.registry = "started",
                             !.component.master = "started",
                             !.component.httpServer = "started"]
    /\ UNCHANGED notRuntimeVars

\* Run: r.nativePusher(), which starts no pusher when the report interval
\* is 0; then the state is Running and Run returns nil
RunNativePusher(monitorEnabled) ==
    /\ rt.pc = "nativePusher"
    /\ rt' = RunReturns([rt EXCEPT !.state = "Running",
                                   !.component.pusher =
                                       IF monitorEnabled THEN "started" ELSE "nil"],
                        "nil")
    /\ UNCHANGED notRuntimeVars

\* State()
State ==
    /\ rt.pc # "none"
    /\ rt' = [rt EXCEPT !.seen = rt.state]
    /\ UNCHANGED notRuntimeVars

\* runtime.Stop() is called, by the goroutine that called Run or would have
StopRuntime ==
    /\ rt.pc \in {"new", "returned"}
    /\ rt.stop = "idle"
    /\ rt' = [rt EXCEPT !.stop = StopOrder[1]]
    /\ UNCHANGED notRuntimeVars

\* The field Stop looks at after field c: the state is set at the end
NextToStop(c) ==
    LET i == CHOOSE j \in DOMAIN StopOrder : StopOrder[j] = c
    IN  IF i < Len(StopOrder) THEN StopOrder[i + 1] ELSE "terminated"

\* Stop: one `if r.<c> != nil` block; an error of Close is logged
StopComponent(c, err) ==
    /\ rt.stop = c
    /\ rt' = IF rt.component[c] = "nil"
             THEN [rt EXCEPT !.stop = NextToStop(c)]
             ELSE [rt EXCEPT !.stop = NextToStop(c),
                             !.component[c] = "stopped",
                             !.stopped = Append(@, c),
                             !.logged = IF err /\ c \in {"httpServer", "registry", "repo"}
                                        THEN @ \cup {c} ELSE @]
    /\ UNCHANGED notRuntimeVars

\* Stop: r.state = server.Terminated, then the deferred r.cancel()
StopTerminated ==
    /\ rt.stop = "terminated"
    /\ rt' = [rt EXCEPT !.stop = "returned", !.state = "Terminated", !.cancelled = TRUE]
    /\ UNCHANGED notRuntimeVars

\* A new broker runtime
InitRuntime ==
    /\ NewMemoryDatabase
    /\ pts = Points
    /\ CodecIdle
    /\ PoolIdle
    /\ ClusterIdle
    /\ LeafIdle
    /\ NewBrokerRuntime("new")

NextRuntime ==
    \/ \E ipErr \in BOOLEAN, nameErr \in BOOLEAN : RunGetHostIP(ipErr, nameErr)
    \/ \E err \in BOOLEAN : RunStartStateRepo(err)
    \/ \E err \in BOOLEAN : RunStartStateMachines(err)
    \/ \E err \in BOOLEAN : RunRegister(err)
    \/ \E monitorEnabled \in BOOLEAN : RunNativePusher(monitorEnabled)
    \/ State
    \/ StopRuntime
    \/ \E c \in Components, err \in BOOLEAN : StopComponent(c, err)
    \/ StopTerminated

SpecRuntime == InitRuntime /\ [][NextRuntime]_vars

\* --------------------------------------------------------- specifications
\* A new database whose callers submit the points of Points; the codec is not
\* used.
Init ==
    /\ NewMemoryDatabase
    /\ pts = Points
    /\ CodecIdle
    /\ PoolIdle
    /\ AppIdle

Writer(w) ==
    \/ AcquireWrite(w)
    \/ Write(w)
    \/ WithLock(w)
    \/ WriteWithoutLock(w)
    \/ getOrCreateMStore(w)
    \/ GetFStore(w)
    \/ writeLinField(w)
    \/ writeLinFieldFails(w)
    \/ WriteWithoutLockEnd(w)
    \/ Unlock(w)
    \/ CompleteWrite(w)

\* Writers and the flush goroutine: the write/flush barrier. Query goroutines
\* take part in neither the barrier nor the walk, and only delay writers.
Next ==
    \/ \E w \in Writers : Writer(w)
    \/ FlushFamilyTo
    \/ WalkEntry
    \/ FlushMetricsDataTo
    \/ Commit

Spec == Init /\ [][Next]_vars

\* Writers and query goroutines: the read/write lock. The flush goroutine
\* neither takes the lock nor changes what Filter reads.
NextFilter ==
    \/ \E w \in Writers : Writer(w)
    \/ \E r \in Readers : RLock(r) \/ Filter(r)

SpecFilter == Init /\ [][NextFilter]_vars

\* One point with a compound field submitted, possibly several times, to a new
\* database by the writer goroutines.
InitPoint ==
    /\ NewMemoryDatabase
    /\ \E point \in CompoundPoints : pts = {point}
    /\ CodecIdle
    /\ PoolIdle
    /\ AppIdle

NextPoint == \E w \in Writers : Writer(w)

SpecPoint == InitPoint /\ [][NextPoint]_vars

\* One point of FieldPoints submitted, possibly several times, to a new
\* database by the writer goroutines.
InitFields ==
    /\ NewMemoryDatabase
    /\ \E point \in FieldPoints : pts = {point}
    /\ CodecIdle
    /\ PoolIdle
    /\ AppIdle

SpecFields == InitFields /\ [][NextPoint]_vars

\* MemSize: md.allocSize.Load()
MemSize == allocSize

\* ------------------------------------------------------------------ claims

\* C1. Flush barrier: while a writer that called AcquireWrite before
\* FlushFamilyTo was called has not called CompleteWrite, FlushFamilyTo is
\* still waiting and has called neither FlushMetricsDataTo nor Commit; and
\* when it walks, every field write made before the call and every field
\* write such a writer made after it is in the field stores, in a metric store
\* the walk started with.
C1_FlushBarrier ==
    /\ fl.pending \subseteq InFlight
    /\ fl.pending # {} => fl.pc = "waiting" /\ fl.walked = <<>> /\ fl.commits = 0
    /\ fl.pc = "walk"
         => /\ (fl.atCall \cup fl.pendingWrites) \subseteq Contents
            /\ \A c \in fl.atCall \cup fl.pendingWrites : c[1][1] \in fl.walkStart

\* The flush waited for a writer that wrote a field after the flush was called,
\* and is now walking.
C1_Witness == fl.pc = "walk" /\ fl.pendingWrites # {}

\* C2 as stated: from the moment FlushFamilyTo starts walking to the moment it
\* returns, no step changes the bucket store or a metric, series or field store.
C2_NoWriteDuringWalk == [][fl.pc = "walk" => UNCHANGED storeVars]_vars

\* C2 as amended: a step that changes a store while FlushFamilyTo walks is a
\* step of the writer holding the lock, and that writer called AcquireWrite
\* after FlushFamilyTo was called.
C2_OnlyLaterWritersWriteDuringWalk ==
    [][(fl.pc = "walk" /\ storeVars' # storeVars)
       => (rwOwner \in InFlight /\ rwOwner \notin fl.pending)]_vars

\* A metric store was put in the bucket store while the flush was walking.
C2_Witness == fl.pc = "walk" /\ mStores # fl.walkStart

\* C3. Flush progress: the barrier wait ends once every writer that was in
\* flight when FlushFamilyTo was called has called CompleteWrite, so a flush
\* that is still waiting has such a writer to wait for.
C3_WaitEndsWithWritersInFlightAtCall == fl.pc = "waiting" => fl.pending # {}

\* C4. A flush never blocks writers: the flush goroutine never holds the
\* database lock; AcquireWrite is always possible for an idle writer; a writer
\* can take the lock whenever nobody holds it; and a writer that holds the
\* lock, or has released it, can always take its next step.
C4_FlushNeverBlocksWriters ==
    /\ rwOwner # Flusher
    /\ Flusher \notin rwReaders
    /\ \A w \in Writers :
         /\ wr[w].pc = "idle" => ENABLED AcquireWrite(w)
         /\ (wr[w].pc = "acquired" /\ rwOwner = NoOwner /\ rwReaders = {})
              => /\ ENABLED WithLock(w)
                 /\ hist.points < MaxPoints => ENABLED Write(w)
         /\ wr[w].pc = "locked" => ENABLED Unlock(w) \/ ENABLED WriteWithoutLock(w)
         /\ wr[w].pc = "mstore" => ENABLED getOrCreateMStore(w)
         /\ wr[w].pc = "writing" => ENABLED GetFStore(w) \/ ENABLED WriteWithoutLockEnd(w)
         /\ wr[w].pc = "field" => ENABLED writeLinField(w)
         /\ wr[w].pc = "unlocked" => ENABLED CompleteWrite(w)

\* A writer that called AcquireWrite after the flush was called is writing a
\* field while the flush waits at the barrier, and another while it walks.
C4_Witness ==
    /\ fl.pc \in {"waiting", "walk"}
    /\ \E w \in InFlight \ fl.pending : wr[w].pc = "field"

\* C5. Flush abort: an error of FlushMetricsDataTo is the error FlushFamilyTo
\* returns, the failing metric store is the last one flushed, and Commit is not
\* called.
C5_FlushAbort ==
    \A i \in 1..Len(fl.walked) :
        fl.walked[i].err # Nil
        => /\ i = Len(fl.walked)
           /\ fl.pc = "returned"
           /\ fl.result = fl.walked[i].err
           /\ fl.commits = 0
           /\ fl.commitResult = NoResult

\* The first of two metric stores failed to flush: the flush has returned
\* without flushing the other.
C5_Witness ==
    /\ fl.pc = "returned"
    /\ fl.result = ErrFlush
    /\ Len(fl.walked) = 1
    /\ fl.walkStart = {1, 2}

\* C6. A flush whose per-metric flushes all succeed: FlushMetricsDataTo is
\* called at most once per metric store, with that store's own metric ID in
\* the flushContext; no Commit happens before the walk has ended; and when
\* FlushFamilyTo has returned, every metric store that was in the bucket store
\* when the walk started was flushed, Commit was called exactly once and
\* FlushFamilyTo returned Commit's result.
C6_FlushAllThenCommit ==
    /\ \A i, j \in 1..Len(fl.walked) : i # j => fl.walked[i].key # fl.walked[j].key
    /\ \A i \in 1..Len(fl.walked) :
         fl.walked[i].key \in mStores /\ fl.walked[i].metricID = fl.walked[i].key
    /\ fl.pc # "returned" => fl.commits = 0 /\ fl.result = NoResult
    /\ (fl.pc = "returned" /\ \A i \in 1..Len(fl.walked) : fl.walked[i].err = Nil)
         => /\ fl.walkStart \subseteq Visited
            /\ fl.commits = 1
            /\ fl.commitResult \in {Nil, ErrCommit}
            /\ fl.result = fl.commitResult

\* Two metric stores were flushed, then Commit failed and FlushFamilyTo
\* returned its error.
C6_Witness ==
    /\ fl.pc = "returned"
    /\ Len(fl.walked) = 2
    /\ fl.commits = 1
    /\ fl.result = ErrCommit

\* C7. Lock discipline: a writer is inside Write or a WithLock...release batch
\* exactly when it holds the lock exclusively, so at most one is; a Filter is
\* in progress exactly when it holds the lock shared; and the lock is never
\* held exclusively and shared at once. After the release function (or Write's
\* deferred Unlock) nobody holds the lock exclusively.
C7_LockDiscipline ==
    /\ rwOwner \in Writers \cup {NoOwner}
    /\ \A w \in Writers : (wr[w].pc \in {"locked", "mstore", "writing", "field"}) <=> rwOwner = w
    /\ \A r \in Readers : rd[r].pc = "rlocked" <=> r \in rwReaders
    /\ rwOwner # NoOwner => rwReaders = {}

\* Two Filter calls are in progress at once.
C7_Witness == rd["r1"].pc = "rlocked" /\ rd["r2"].pc = "rlocked"

\* C8. One metric store per written metric ID (newMetricStore was called once
\* for it, or the first WriteWithoutLock for it is about to call it); one field
\* store per triple written, with AllocPage called once for it; and every field
\* store holds exactly the values written to its triple, in order.
C8_OneStorePerKey ==
    /\ DOMAIN hist.newMStore = mStores
    /\ \A m \in mStores : hist.newMStore[m] = 1
    /\ \A m \in hist.writeIssued :
         m \in mStores \/ \E w \in Writers : wr[w].pc = "mstore" /\ wr[w].point.MetricID = m
    /\ DOMAIN hist.allocPage = DOMAIN fStores
    /\ \A t \in DOMAIN fStores : hist.allocPage[t] = 1
    /\ allocatedPages = Cardinality(DOMAIN fStores)
    /\ hist.issued = fStores

\* Both writers are in flight, and a field store created once holds two values.
C8_Witness ==
    /\ InFlight = Writers
    /\ <<1, 7, 1>> \in DOMAIN fStores
    /\ Len(fStores[<<1, 7, 1>>]) = 2
    /\ allocatedPages = 1

\* C9. MemSize() never decreases.
C9_MemSizeNeverDecreases == [][MemSize' >= MemSize]_vars

\* C10. Filter on a metric ID for which WriteWithoutLock was never called
\* returns (nil, nil); on any other metric ID it returns what that metric
\* store's Filter returns for the database's family time; and in both cases it
\* changes no store, no counter and not MemSize.
C10_Filter ==
    [][\A r \in Readers :
         (rd[r].pc = "rlocked" /\ rd'[r].pc = "idle")
         => /\ UNCHANGED <<storeVars, allocSize, allocatedPages, allocatedPageFailures>>
            /\ rd[r].metricID \notin hist.writeIssued
                 => rd'[r].result = NilNil /\ rd[r].metricID \notin mStores'
            /\ rd[r].metricID \in hist.writeIssued
                 => rd'[r].result = MStoreFilter(rd[r].metricID, cfg.FamilyTime)]_vars

\* One Filter returned (nil, nil) for the unwritten metric 3, another returned
\* the result of the metric store of metric 1.
C10_Witness ==
    /\ rd["r1"].pc = "idle" /\ rd["r1"].metricID = 3 /\ rd["r1"].result = NilNil
    /\ rd["r2"].pc = "idle" /\ rd["r2"].metricID = 1
    /\ rd["r2"].result = MStoreFilter(1, cfg.FamilyTime)

\* The values C11 expects a WriteWithoutLock call to write, in order: those of
\* the simple fields that are sums or gauges, then of the compound field min
\* and max (each only when positive), sum, count and one per explicit bound.
ExpectedValues(point) ==
    LET typed == SelectSeq(point.Proto.SimpleFields,
                           LAMBDA sf : sf.Type \in {"DELTA_SUM", "CUMULATIVE_SUM", "GAUGE"})
        c == point.Proto.CompoundField
    IN [i \in 1..Len(typed) |-> typed[i].Value]
       \o (IF ~c.present THEN <<>>
           ELSE (IF c.Min > 0 THEN <<c.Min>> ELSE <<>>)
                \o (IF c.Max > 0 THEN <<c.Max>> ELSE <<>>)
                \o <<c.Sum, c.Count>>
                \o [i \in 1..Len(c.ExplicitBounds) |-> c.Values[i]])

\* C11. A WriteWithoutLock call that returns nil has written, after the simple
\* fields, the compound field's min, max, sum, count and one value per explicit
\* bound, in that order, and its i-th field write used point.FieldIDs[i]; with
\* Min > 0, Max > 0 and k bounds that is 4 + k compound writes.
C11_CompoundOrder ==
    [][\A w \in Writers :
         (wr[w].pc = "writing" /\ wr'[w].pc = "locked")
         => LET point == wr[w].point
                expected == ExpectedValues(point)
            IN /\ wr'[w].err = Nil
               /\ Len(wr[w].done) = Len(expected)
               /\ \A i \in 1..Len(expected) :
                    /\ wr[w].done[i].value = expected[i]
                    /\ wr[w].done[i].fieldID = point.FieldIDs[i]
                    /\ Entry(wr[w].done[i].fieldType, point.SlotIndex, expected[i])
                         \in {fStores[Triple(point, point.FieldIDs[i])][j] :
                                j \in 1..Len(fStores[Triple(point, point.FieldIDs[i])])}]_vars

\* A call for the point with min, max and two bounds has made its six field
\* writes and is about to return.
C11_Witness ==
    \E w \in Writers :
        /\ wr[w].pc = "writing"
        /\ wr[w].todo = <<>>
        /\ wr[w].point.Proto.CompoundField.present
        /\ wr[w].point.Proto.CompoundField.Min > 0
        /\ wr[w].point.Proto.CompoundField.Max > 0
        /\ Len(wr[w].point.Proto.CompoundField.ExplicitBounds) = 2
        /\ Len(wr[w].done) = 6

\* C12. When a field write of a point fails, WriteWithoutLock returns that
\* error at once: the step that fails ends the call with the error, writes
\* nothing, and leaves the field writes the call made before in their field
\* stores; and no step ever removes a value from a field store.
C12_FailedFieldWriteAborts ==
    [][/\ \A w \in Writers :
            (wr[w].pc = "field" /\ allocatedPageFailures' # allocatedPageFailures)
            => /\ wr'[w].pc = "locked"
               /\ wr'[w].err = ErrAlloc
               /\ wr'[w].calls = wr[w].calls + 1
               /\ wr'[w].todo = <<>>
               /\ UNCHANGED <<storeVars, hist>>
               /\ \A i \in 1..Len(wr[w].done) :
                    LET t == Triple(wr[w].point, wr[w].done[i].fieldID)
                    IN /\ t \in DOMAIN fStores'
                       /\ \E j \in 1..Len(fStores'[t]) :
                            fStores'[t][j] = Entry(wr[w].done[i].fieldType,
                                                   wr[w].point.SlotIndex,
                                                   wr[w].done[i].value)
       /\ \A t \in DOMAIN fStores :
            /\ t \in DOMAIN fStores'
            /\ Len(fStores'[t]) >= Len(fStores[t])
            /\ SubSeq(fStores'[t], 1, Len(fStores[t])) = fStores[t]]_vars

\* The first call for a point has returned the error of its third field write;
\* the two field stores of its first two writes are there.
C12_Witness ==
    \E w \in Writers :
        /\ wr[w].pc = "locked"
        /\ wr[w].err = ErrAlloc
        /\ hist.points = 1
        /\ allocatedPageFailures = 1
        /\ Cardinality(DOMAIN fStores) = 2

\* C13. A step in which AllocPage fails ends the call with that error, adds
\* one to the allocation-failure counter and nothing to the allocated-pages
\* counter, inserts no field store and adds no field to the metric store; a
\* later lookup of that field finds no field store, and a write whose lookup
\* found none calls AllocPage again (a page or a failure is counted).
C13_AllocPageFailure ==
    [][\A w \in Writers :
         /\ (wr[w].pc = "field" /\ wr'[w].err = ErrAlloc /\ wr[w].err # ErrAlloc)
            => /\ ~wr[w].found
               /\ wr'[w].pc = "locked"
               /\ allocatedPageFailures' = allocatedPageFailures + 1
               /\ allocatedPages' = allocatedPages
               /\ fStores' = fStores
               /\ Triple(wr[w].point, Head(wr[w].todo).fieldID) \notin DOMAIN fStores'
               /\ mFields' = mFields
               /\ tStores' = tStores
         /\ (wr[w].pc = "writing" /\ wr'[w].pc = "field")
            => (wr'[w].found
                  <=> Triple(wr[w].point, Head(wr[w].todo).fieldID) \in DOMAIN fStores)
         /\ (wr[w].pc = "field" /\ ~wr[w].found /\ wr'[w] # wr[w])
            => \/ /\ allocatedPages' = allocatedPages + 1
                  /\ allocatedPageFailures' = allocatedPageFailures
               \/ /\ allocatedPages' = allocatedPages
                  /\ allocatedPageFailures' = allocatedPageFailures + 1]_vars

\* A call failed at its first field write; a later call for the same point has
\* allocated the page of that field and written it.
C13_Witness ==
    \E w \in Writers :
        /\ wr[w].pc = "writing"
        /\ Len(wr[w].done) = 1
        /\ hist.points = 2
        /\ allocatedPageFailures = 1
        /\ allocatedPages = 1
        /\ DOMAIN fStores = {Triple(wr[w].point, wr[w].done[1].fieldID)}
        /\ Len(fStores[Triple(wr[w].point, wr[w].done[1].fieldID)]) = 1

\* The slots a caller decoding slot by slot has decoded so far are the first
\* slots that were appended.
GotIsPrefixOfFed ==
    /\ Len(drv.got) <= Len(enc.fed)
    /\ \A i \in 1..Len(drv.got) :
         i <= Len(enc.fed) =>
           /\ drv.got[i].present = enc.fed[i].present
           /\ (i < Len(drv.got) \/ drv.expect # "Value") => drv.got[i].value = enc.fed[i].value

\* The caller of the encoder called AppendValue after every AppendTime(1) and
\* only then, got a block from Bytes(), and decodes it slot by slot.
RoundTripCase ==
    /\ drv.mode = "lockstep"
    /\ enc.proto = "ok"
    /\ blk.called /\ ~blk.data.isNil
    /\ drv.last # "none"

\* C14: codec round trip. A decoder reset on the block of an encoder and
\* driven as Next(); HasValue(); Value()-if-present yields the presence bits
\* and the values that were appended, in their order, and Next() returns true
\* exactly as often as AppendTime was called.
C14_RoundTrip ==
    RoundTripCase =>
      /\ GotIsPrefixOfFed
      /\ drv.nexts <= Len(enc.fed)
      /\ drv.expect = "end" => (drv.nexts = Len(enc.fed) /\ drv.got = enc.fed)

\* Bytes() was called on an encoder on which AppendTime was never called.
EmptyBlockCase == blk.called /\ Len(enc.fed) = 0

\* C15: empty-block law. An encoder on which AppendTime was called zero times
\* returns no block from Bytes(), whatever its start time and whether or not
\* AppendValue was called: (nil, nil) if no write failed, and nil with the
\* error if a write of AppendValue or the flush failed.
C15_EmptyBlock ==
    EmptyBlockCase =>
      /\ blk.data.isNil
      /\ blk.err = (IF enc.err # Nil THEN enc.err ELSE blk.flushed)

C15_Witness ==
    /\ EmptyBlockCase
    /\ enc.values > 0 /\ enc.startTime = 65535
    /\ blk.data.isNil /\ blk.err = Nil

\* C15 as stated: Bytes() returns (nil, nil).
C15_EmptyBlockNilNil == EmptyBlockCase => (blk.data.isNil /\ blk.err = Nil)

\* Bytes() returned a block and a decoder was reset on it.
HeaderCase ==
    /\ drv.mode = "lockstep"
    /\ blk.called /\ ~blk.data.isNil
    /\ drv.last # "none"

\* C16: header correctness. The block of an encoder created with startTime on
\* which AppendTime was called count >= 1 times decodes with StartTime() =
\* startTime and EndTime() = startTime + count - 1, and DecodeTSDTime returns
\* the same pair.
C16_Header ==
    HeaderCase =>
      /\ Len(enc.fed) >= 1
      /\ StartTime(dec) = enc.startTime
      /\ EndTime(dec) = enc.startTime + Len(enc.fed) - 1
      /\ DecodeTSDTime(blk.data) = <<enc.startTime, enc.startTime + Len(enc.fed) - 1>>

\* C17: every block Bytes() returns has end >= start in its header, and the
\* range from start to end contains every slot that was appended as present,
\* also when startTime + count - 1 exceeds 65535.
C17_EndNotBeforeStart ==
    (blk.called /\ ~blk.data.isNil) =>
      LET range == DecodeTSDTime(blk.data) IN
      /\ range[2] >= range[1]
      /\ \A i \in 1..Len(enc.fed) :
           enc.fed[i].present = 1 =>
             /\ range[1] <= enc.startTime + i - 1
             /\ enc.startTime + i - 1 <= range[2]

\* C18: short-block rejection. After Reset(data) with len(data) <= 4 Error()
\* is not nil, and every Next() and HasValue() returns false until the decoder
\* is given a block; the same for a decoder that NewTSDDecoder built from such
\* data.
C18_ShortBlockRejected ==
    drv.refused =>
      /\ drv.last = "Reset" => Error(dec) # Nil
      /\ drv.last \in {"Next", "HasValue"} => ~drv.ret

\* The decoder was given data with a time range of startTime <= endTime, and
\* its caller has since called Next() and nothing else.
RepeatedNextCase ==
    /\ dec.hasBuf /\ ~drv.refused
    /\ dec.startTime <= dec.endTime
    /\ drv.onlyNext /\ drv.last = "Next"

\* C19: decoder iteration is finite. After a Reset or ResetWithTimeRange with
\* startTime <= endTime, repeated Next() returns true exactly endTime -
\* startTime + 1 times and false from then on, and Slot() after the n-th true
\* is startTime + n - 1; also when endTime is 65535.
C19_NextIsFinite ==
    RepeatedNextCase =>
      /\ drv.ret =>
           /\ ~drv.ended
           /\ drv.nexts <= dec.endTime - dec.startTime + 1
           /\ Slot(dec) = dec.startTime + drv.nexts - 1
      /\ ~drv.ret => drv.nexts = dec.endTime - dec.startTime + 1

CallAfterError(name) ==
    /\ enc.err # Nil
    /\ drv'.calls = drv.calls + 1 /\ drv'.last = name

\* C21: sticky encoder error. Once AppendTime or AppendValue has latched an
\* error, every later AppendTime and AppendValue writes nothing to the bit
\* stream and leaves the error as it is, and Bytes() and BytesWithoutTime()
\* return nil and that error.
C21_StickyError ==
    [][/\ (CallAfterError("AppendTime") \/ CallAfterError("AppendValue")) =>
            (enc'.bits = enc.bits /\ enc'.err = enc.err)
       /\ CallAfterError("Bytes") => (blk'.data.isNil /\ blk'.err = enc.err)
       /\ CallAfterError("BytesWithoutTime") => (pay'.data.isNil /\ pay'.err = enc.err)
      ]_vars

C21_Witness ==
    /\ enc.err # Nil /\ enc.resets = 0
    /\ Len(enc.fed) > enc.count
    /\ blk.called /\ blk.err = enc.err
    /\ pay.called /\ pay.err = enc.err

\* C22: encoder Reset makes the encoder reusable as if newly created with the
\* same startTime. After Reset() the slot count and any latched error are
\* cleared; Reset() followed by no appends gives Bytes() = (nil, nil), and
\* Reset() followed by k >= 1 AppendTime calls, none of which fails, gives a
\* block whose header end is startTime + k - 1.
C22_ResetReusable ==
    enc.resets >= 1 =>
      /\ drv.last = "Reset" => (enc.count = 0 /\ enc.err = Nil)
      /\ (drv.last = "Bytes" /\ blk.flushed = Nil /\ Len(enc.fed) = 0 /\ enc.values = 0) =>
           (blk.data.isNil /\ blk.err = Nil)
      /\ (drv.last = "Bytes" /\ blk.err = Nil /\ Len(enc.fed) >= 1) =>
           /\ ~blk.data.isNil
           /\ DecodeTSDTime(blk.data) =
                <<enc.startTime, enc.startTime + Len(enc.fed) - 1>>

\* Bytes() and then BytesWithoutTime() returned bytes without error.
PayloadCase ==
    /\ drv.mode = "payload"
    /\ blk.called /\ blk.err = Nil /\ ~blk.data.isNil
    /\ pay.called /\ pay.err = Nil

\* C26: BytesWithoutTime() returns the payload of Bytes(). For an encoder with
\* at least one AppendTime and no error, Bytes() is the 4-byte header, start
\* and end as little-endian uint16, followed by the bytes of
\* BytesWithoutTime(), and a decoder given these bytes and the header's range
\* through ResetWithTimeRange returns from every call what a decoder Reset on
\* the block returns.
C26_Payload ==
    PayloadCase =>
      /\ ~pay.data.isNil
      /\ blk.data.bytes =
           PutUInt16(enc.startTime) \o PutUInt16(DecodeTSDTime(blk.data)[2])
           \o pay.data.bytes
      /\ drv.last # "none" =>
           LET onBlock == Replay(Reset(TSDDecoderZero, blk.data), drv.hist) IN
           /\ onBlock.ret = drv.ret /\ onBlock.value = drv.value
           /\ StartTime(onBlock.dec) = StartTime(dec)
           /\ EndTime(onBlock.dec) = EndTime(dec)
           /\ Slot(onBlock.dec) = Slot(dec)
           /\ Error(onBlock.dec) = Error(dec)

C26_Witness ==
    /\ PayloadCase
    /\ drv.last = "Value" /\ drv.value = 6 /\ Len(drv.got) = 2
    /\ drv.got[1].present = 1

\* C27: decoder reuse. A decoder that has decoded a part of a block, or
\* holds an error, and is then Reset on a block B is the decoder
\* NewTSDDecoder(B) makes: Error() is nil, StartTime() and EndTime() are those
\* of B's header, the slot cursor is at 0, and so every later call returns
\* what it returns on the new decoder.
C27_DecoderReuse ==
    [][(drv'.last = "Reset" /\ drv'.calls = drv.calls + 1 /\ ~drv'.refused) =>
         /\ dec' = NewTSDDecoder(ByteSlice(drv'.given))
         /\ Error(dec') = Nil
         /\ <<StartTime(dec'), EndTime(dec')>> = DecodeTSDTime(ByteSlice(drv'.given))
         /\ dec'.idx = 0
      ]_vars

C27_Witness ==
    /\ drv.reused /\ drv.given = OtherBlock.bytes /\ dec.data # blk.data.bytes
    /\ drv.last = "Value" /\ drv.value = 6
    /\ drv.got = <<Slot1(6)>>

\* C23: Stop drains pending work. When Stop returns, every task for which
\* Submit had returned before Stop was called has been run, whether it was in
\* the task queue, held by the dispatcher or running on a worker then.
C23_StopDrains ==
    stopper.pc = "returned" => \A t \in stopper.submitted : ran[t].runs >= 1

C23_Witness ==
    /\ stopper.pc = "returned"
    /\ stopper.queued # {} /\ stopper.running # {}
    /\ \A t \in stopper.submitted : ran[t].runs = 1

\* C24: the number of live workers of a pool never exceeds maxWorkers, with
\* maxWorkers < 1 taken as 1.
C24_WorkersWithinMax ==
    /\ Cardinality(LiveWorkers) <= pool.maxWorkers
    /\ pool.workersAlive <= pool.maxWorkers

\* C25: SubmitAndWait on a pool that is not stopped returns only after the
\* task has been run by a worker, and the task is run exactly once; with a nil
\* task or a stopped pool Submit and SubmitAndWait return at once and the task
\* is never run.
C25_SubmitAndWait ==
    /\ \A t \in Tasks :
         /\ (ran[t].call = "SubmitAndWait" /\ ~ran[t].stopped) =>
              /\ ran[t].runs <= 1
              /\ ran[t].returned => ran[t].runs = 1
              /\ \A i \in 1..Len(pool.tasks) : pool.tasks[i] # t
         /\ ran[t].stopped => (ran[t].returned /\ ran[t].runs = 0)
    /\ \A c \in Callers :
         (callers[c].call # "none" /\ (callers[c].task = NoTask \/ callers[c].stoppedAtCall)) =>
           callers[c].pc = "returned"

C25_Witness ==
    /\ \E t \in Tasks :
         ran[t].call = "SubmitAndWait" /\ ~ran[t].stopped /\ ran[t].returned /\ ran[t].runs = 1
    /\ \E t \in Tasks : ran[t].call = "SubmitAndWait" /\ ran[t].stopped

\* The simple fields of a point that are of a written type, in proto order.
TypedSimpleFields(point) ==
    SelectSeq(point.Proto.SimpleFields,
              LAMBDA sf : sf.Type \in {"DELTA_SUM", "CUMULATIVE_SUM", "GAUGE"})

\* The field writes of the call a writer is in: those made and those to come.
CallWrites(w) == wr[w].done \o wr[w].todo

InCall(w) == wr[w].pc \in {"writing", "field"}

\* The field writes a call has made are in their field stores.
DoneIsStored(w) ==
    \A i \in 1..Len(wr[w].done) :
        LET t == Triple(wr[w].point, wr[w].done[i].fieldID)
        IN /\ t \in DOMAIN fStores
           /\ Entry(wr[w].done[i].fieldType, wr[w].point.SlotIndex, wr[w].done[i].value)
                \in {fStores[t][j] : j \in 1..Len(fStores[t])}

\* C28. In WriteWithoutLock the compound field's Min, and its Max, is written
\* only when it is > 0; a skipped one makes no field write and takes no entry
\* of point.FieldIDs, so that the next component written has the field ID at
\* the index the skipped one would have had; Sum and Count are written whatever
\* their values.
C28_MinMaxOnlyWhenPositive ==
    \A w \in Writers :
        (InCall(w) /\ wr[w].point.Proto.CompoundField.present) =>
          LET point == wr[w].point
              c == point.Proto.CompoundField
              all == CallWrites(w)
              nS == Len(TypedSimpleFields(point))
              m == IF c.Min > 0 THEN 1 ELSE 0
              x == IF c.Max > 0 THEN 1 ELSE 0
          IN /\ Len(all) = nS + m + x + 2 + Len(c.ExplicitBounds)
             /\ m = 1 => /\ all[nS + 1].value = c.Min
                         /\ all[nS + 1].fieldID = point.FieldIDs[nS + 1]
             /\ x = 1 => /\ all[nS + m + 1].value = c.Max
                         /\ all[nS + m + 1].fieldID = point.FieldIDs[nS + m + 1]
             /\ all[nS + m + x + 1] =
                  FieldWrite(point.FieldIDs[nS + m + x + 1], "SumField", c.Sum)
             /\ all[nS + m + x + 2] =
                  FieldWrite(point.FieldIDs[nS + m + x + 2], "SumField", c.Count)
             /\ DoneIsStored(w)

\* A call for the point without min has written max, sum and count with the
\* first three field IDs and is about to return.
C28_Witness ==
    \E w \in Writers :
        /\ wr[w].pc = "writing"
        /\ wr[w].todo = <<>>
        /\ wr[w].point.Proto.CompoundField.present
        /\ wr[w].point.Proto.CompoundField.Min = 0
        /\ wr[w].point.Proto.CompoundField.Max > 0
        /\ [i \in 1..3 |-> wr[w].done[i].fieldID] = <<1, 2, 3>>
        /\ Len(wr[w].done) = 3

\* C29. In WriteWithoutLock each simple field of type DELTA_SUM or
\* CUMULATIVE_SUM makes one field write of type SumField and each GAUGE field
\* one of type GaugeField, in proto order, the j-th of them with
\* point.FieldIDs[j]; a simple field of another type makes no write and takes
\* no field ID.
C29_SimpleFields ==
    \A w \in Writers :
        InCall(w) =>
          LET point == wr[w].point
              c == point.Proto.CompoundField
              all == CallWrites(w)
              typed == TypedSimpleFields(point)
              nC == IF ~c.present THEN 0
                    ELSE (IF c.Min > 0 THEN 1 ELSE 0) + (IF c.Max > 0 THEN 1 ELSE 0)
                         + 2 + Len(c.ExplicitBounds)
          IN /\ Len(all) = Len(typed) + nC
             /\ \A j \in 1..Len(typed) :
                  all[j] = FieldWrite(point.FieldIDs[j],
                                      IF typed[j].Type = "GAUGE" THEN "GaugeField"
                                      ELSE "SumField",
                                      typed[j].Value)
             /\ DoneIsStored(w)

\* A call for the point with four simple fields, one of them of no written
\* type, has made its three field writes and is about to return.
C29_Witness ==
    \E w \in Writers :
        /\ wr[w].pc = "writing"
        /\ wr[w].todo = <<>>
        /\ Len(wr[w].point.Proto.SimpleFields) = 4
        /\ Len(wr[w].done) = 3
        /\ wr[w].done[3] = FieldWrite(3, "GaugeField", 7)

\* C30. Slot presence: when no WriteWithoutLock call is in progress, every slot
\* at which a field store of a metric holds a value has been marked in that
\* metric store by SetSlot; and SetSlot is only called by a call that has made
\* a field write.
C30_SlotPresence ==
    [][/\ (\A w \in Writers : ~InCall(w)' /\ wr'[w].pc # "mstore")
            => \A t \in DOMAIN fStores' : \A i \in 1..Len(fStores'[t]) :
                 <<t[1], fStores'[t][i].slot>> \in mSlots'
       /\ mSlots' # mSlots
            => \E w \in Writers : InCall(w) /\ wr[w].done # <<>>]_vars

\* C31. Metric-level field registration: AddField is called once per field
\* store, at the write that creates the store, after AllocPage and
\* InsertFStore and before the first value is written; a write to a field
\* store that exists calls neither AddField nor AllocPage.
C31_AddFieldOncePerStore ==
    /\ DOMAIN hist.calls = DOMAIN fStores
    /\ \A t \in DOMAIN fStores :
         LET calls == hist.calls[t] IN
         /\ Len(calls) = 3 + Len(fStores[t])
         /\ SubSeq(calls, 1, 4) = <<"AllocPage", "InsertFStore", "AddField", "Write">>
         /\ \A i \in 5..Len(calls) : calls[i] = "Write"
         /\ <<t[1], t[3], fStores[t][1].fieldType>> \in mFields
    /\ allocatedPages = Cardinality(DOMAIN fStores)

\* A field store has been written twice.
C31_Witness ==
    \E t \in DOMAIN fStores :
        /\ Len(fStores[t]) = 2
        /\ hist.calls[t] = <<"AllocPage", "InsertFStore", "AddField", "Write", "Write">>

\* C32. Stop terminates and is idempotent: with every task returning, a call
\* of Stop returns; Stopped() is true from the start of the first Stop on; a
\* second Stop call, after or during the first, returns without stopping a
\* worker or running a task.
C32_StopTerminates ==
    /\ (stopper.pc = "onDispatcherStopped") ~> (stopper.pc = "returned")
    /\ [](stopper.pc # "idle" => Stopped)
    /\ [][Stopped => Stopped']_vars
    /\ [][stopper'.second # stopper.second
            => /\ stopper'.second = "returned"
               /\ UNCHANGED <<pool, workers, dispatcher, callers, ran>>
               /\ stopper'.pc = stopper.pc]_vars
    /\ [](stopper.pc = "returned" => dispatcher.pc = "stopped")
    /\ [][(stopper.pc = "stopWorkers" /\ stopper'.pc = "consumedRemainingTasks")
            => pool.workersAlive = 0]_vars

\* Stop has returned after it stopped two workers, and a second call of Stop
\* has returned as well.
C32_Witness ==
    /\ stopper.pc = "returned"
    /\ stopper.second = "returned"
    /\ pool.workersKilled >= 2

\* C33. Stop stops all worker goroutines: once Stop has returned the pool has
\* no live worker and workersAlive is 0, whatever Submit and SubmitAndWait
\* calls run beside it.
C33_NoWorkerAfterStop ==
    stopper.pc = "returned" => (LiveWorkers = {} /\ pool.workersAlive = 0)

\* Nothing is under way: Stop has returned, every call has returned and no
\* worker holds a task.
PoolAtRest ==
    /\ stopper.pc = "returned"
    /\ \A c \in Callers : callers[c].pc \in {"idle", "returned"}
    /\ \A w \in 1..Len(workers) : workers[w].pc \in {"select", "dead"}

\* C34. No task is lost when Submit races with Stop: the task of a Submit call
\* that passed the Stopped() check is run exactly once, by a worker or by
\* Stop's drain; when nothing is under way any more it has been run.
C34_NoTaskLost ==
    \A t \in Tasks :
        (ran[t].call = "Submit" /\ ~ran[t].stopped) =>
          /\ ran[t].runs <= 1
          /\ PoolAtRest => (ran[t].returned /\ ran[t].runs = 1)

\* C35. Worker hand-off: a worker is in readyWorkers only while it is idle, and
\* once; a worker is given a task only when it is new or was taken from the
\* head of readyWorkers in that step, never while it runs a task and never
\* after it was stopped; and no task is run twice.
C35_WorkerHandOff ==
    /\ [](/\ \A i \in 1..Len(pool.readyWorkers) :
               /\ workers[pool.readyWorkers[i]].pc = "select"
               /\ \A j \in 1..Len(pool.readyWorkers) :
                    pool.readyWorkers[i] = pool.readyWorkers[j] => i = j
          /\ \A t \in Tasks : ran[t].runs <= 1)
    /\ [][\A w \in 1..Len(workers') :
            /\ (w <= Len(workers) /\ workers[w].pc = "dead") => workers'[w].pc = "dead"
            /\ (workers'[w].pc = "task" /\ (w > Len(workers) \/ workers[w] # workers'[w]))
                 => \/ w = Len(workers) + 1
                    \/ /\ workers[w].pc = "select"
                       /\ pool.readyWorkers # <<>>
                       /\ Head(pool.readyWorkers) = w
                       /\ pool'.readyWorkers = Tail(pool.readyWorkers)]_vars

\* The one worker of the pool has run a task, was ready again, and has been
\* given a second task.
C35_Witness ==
    /\ Len(workers) = 1
    /\ workers[1].pc = "task"
    /\ pool.tasksConsumed = 1
    /\ pool.readyWorkers = <<>>

\* ------------------------------------------------- cluster state machine
\* The controllers that were stored in c.clusters and are no longer there
Removed == {i \in DOMAIN ctl : ctl[i].stored /\ csm.clusters[ctl[i].name] # i}

\* The listener leaves the critical section of addCluster
AddClusterReturns == gor.listener.pc = "addCluster" /\ gor'.listener.pc = "idle"

\* C36: a cluster name has at most one controller that is not closed; a
\* controller that was removed from the map or replaced in it has had Close
\* called exactly once, and so has a cluster newCluster returned with an
\* error; an addCluster that stores no controller leaves the name without
\* one, and has cleaned the cluster config of every repo it created.
C36_OneControllerPerName ==
    /\ [](\A n \in ClusterNames :
            Cardinality({i \in DOMAIN ctl : ctl[i].name = n /\ ctl[i].closes = 0}) <= 1)
    /\ [](\A i \in Removed : ctl[i].closes = 1)
    /\ [](\A i \in DOMAIN ctl : ~ctl[i].stored => ctl[i].closes = 1)
    /\ [][AddClusterReturns =>
            LET name == gor.listener.name
            IN  \/ /\ csm'.clusters[name] = Len(ctl') /\ Len(ctl') = Len(ctl) + 1
                   /\ ctl'[Len(ctl')] = Controller(name, TRUE, 0)
                   /\ csm'.cleaned = csm.cleaned
                \/ /\ csm'.clusters[name] = NoCluster
                   /\ csm'.cleaned - csm.cleaned = csm'.repos - csm.repos]_vars

\* The controllers of c.clusters
InMap == {csm.clusters[n] : n \in ClusterNames} \ {NoCluster}

\* C37: once a call of Close has returned, GetCluster returns nil for every
\* name and GetAllCluster returns nil; the Close that swapped running calls
\* discovery.Close first and then Close once on every controller of the map;
\* a call of Close that finds running false closes nothing and returns.
C37_CloseIsFinal ==
    /\ [](AnyCloseReturned => ~csm.running)
    /\ [](gor.got.closed => gor.got.cluster = NoCluster /\ gor.got.all = {})
    /\ [][csm'.closeCalls # csm.closeCalls =>
            /\ csm.closeCalls = <<>>
            /\ Len(csm'.closeCalls) = 1 + Cardinality(InMap)
            /\ csm'.closeCalls[1].callee = "discovery"
            /\ {csm'.closeCalls[i].id : i \in 2..Len(csm'.closeCalls)} = InMap
            /\ \A i \in DOMAIN ctl :
                 ctl'[i].closes = IF i \in InMap THEN ctl[i].closes + 1 ELSE ctl[i].closes]_vars
    /\ [][\A k \in Closers :
            gor.closers[k].pc = "idle" /\ gor'.closers[k].pc = "returned" =>
                ~csm.running /\ csm' = csm /\ ctl' = ctl]_vars

C37_Witness ==
    /\ \A k \in Closers : gor.closers[k].pc = "returned"
    /\ \E k \in Closers : ~gor.closers[k].swapped
    /\ Len(csm.closeCalls) = 2
    /\ InMap # {}
    /\ gor.got.closed
    /\ gor.got.call = "GetAllCluster"

\* C38: once the Close that swapped running has returned, the collector
\* calls CollectStat on no controller, and every controller of the map has
\* been closed.
C38_InertAfterClose ==
    /\ \A i \in DOMAIN ctl : ctl[i].late = 0
    /\ CloseReturned => \A i \in InMap : ctl[i].closes >= 1

\* ------------------------------------------------------ leaf task processor
\* This node is a leaf of the plan of the request
IsLeafOfPlan ==
    \E i \in DOMAIN leaf.req.PhysicalPlan.Leafs :
        leaf.req.PhysicalPlan.Leafs[i].Indicator = CurrentNodeID

\* The parent of the first leaf of the plan that is this node
ParentOfLeaf ==
    LET leafs == leaf.req.PhysicalPlan.Leafs
        mine == {i \in DOMAIN leafs : leafs[i].Indicator = CurrentNodeID}
    IN  leafs[CHOOSE i \in mine : \A j \in mine : i <= j].Parent

\* The request passes the checks of plan, leaf, database and parent stream
PassesChecks ==
    /\ leaf.req.PhysicalPlan.json
    /\ IsLeafOfPlan
    /\ leaf.req.PhysicalPlan.Database \in Databases
    /\ ParentOfLeaf \in leaf.answers.streams

\* The metadata request reaches the executor
MetadataExecuted ==
    PassesChecks /\ leaf.req.RequestType = "Metadata" /\ leaf.req.Payload = "json"

\* The error the request is to end with, "" for none
ErrorInOrder ==
    IF ~leaf.req.PhysicalPlan.json THEN "ErrUnmarshalPlan"
    ELSE IF ~IsLeafOfPlan THEN "ErrBadPhysicalPlan"
    ELSE IF leaf.req.PhysicalPlan.Database \notin Databases THEN "ErrNoDatabase"
    ELSE IF ParentOfLeaf \notin leaf.answers.streams THEN "ErrNoSendStream"
    ELSE IF leaf.req.RequestType = "Data"
    THEN (IF leaf.req.Payload = "bad" THEN "ErrUnmarshalQuery" ELSE "")
    ELSE IF leaf.req.RequestType = "Metadata"
    THEN (IF leaf.req.Payload = "bad" THEN "ErrUnmarshalSuggest"
          ELSE IF leaf.answers.execute.err.is \notin {"", "ErrNotFound"}
          THEN leaf.answers.execute.err.is
          ELSE IF leaf.answers.sendErr THEN "ErrSend" ELSE "")
    ELSE ""

\* C39: Process sends one response on the request stream when process
\* returns an error, with the parent task ID, type Leaf, Completed and the
\* error text, and sends nothing on it otherwise; the error is that of the
\* first failing check in the order plan, leaf, database, parent stream,
\* request type; a metadata executor error that is ErrNotFound sends the
\* empty result to the parent as a completed response without error text.
C39_ErrorResponse ==
    leaf.pc = "processed" =>
        /\ leaf.err.is = ErrorInOrder
        /\ leaf.err = NoError <=> leaf.sent = <<>>
        /\ leaf.err # NoError =>
             /\ Len(leaf.sent) = 1
             /\ leaf.sent[1].TaskID = leaf.req.ParentTaskID
             /\ leaf.sent[1].Type = "Leaf"
             /\ leaf.sent[1].Completed
             /\ leaf.sent[1].ErrMsg = ErrorText(leaf.err)
             /\ leaf.sent[1].ErrMsg # ""
        /\ ~PassesChecks => leaf.parentSent = <<>>
        /\ MetadataExecuted /\ ErrorsIs(leaf.answers.execute.err, Err("ErrNotFound")) =>
             /\ leaf.parentSent =
                  <<TaskResponse(leaf.req.ParentTaskID, TRUE, "", <<>>)>>
             /\ ~leaf.answers.sendErr => leaf.err = NoError /\ leaf.sent = <<>>

C39_Witness ==
    /\ leaf.pc = "processed"
    /\ MetadataExecuted
    /\ leaf.answers.execute.err = Errorf(Err("ErrNotFound"), "tag key")
    /\ Len(leaf.req.PhysicalPlan.Leafs) = 2
    /\ ParentOfLeaf = "root2"
    /\ leaf.parentSent # <<>>
    /\ leaf.sent = <<>>

\* ------------------------------------------------------------ broker runtime
\* The fields Run has set when Stop is called, in the order Stop looks at them
SetInOrder == SelectSeq(StopOrder, LAMBDA c : rt.component[c] # "nil")

\* C40: State() is New until Run is called; when Run has returned an error
\* it is Failed, when Run has returned nil it is Running; when Stop has
\* returned it is Terminated, and Stop has shut down the components Run had
\* set, each once and in the order pusher, HTTP server, registry, master,
\* state machines, state repo, gRPC server.
C40_RuntimeState ==
    /\ rt.pc = "new" /\ rt.stop # "returned" => rt.state = "New"
    /\ rt.pc = "returned" /\ rt.stop # "returned" =>
         rt.state = IF rt.result = "nil" THEN "Running" ELSE "Failed"
    /\ rt.stop = "returned" =>
         /\ rt.state = "Terminated"
         /\ rt.stopped = SetInOrder
         /\ \A c \in Components : rt.component[c] \in {"nil", "stopped"}

====
